---- MODULE Spec2Model ----
(***************************************************************************)
(* Model of the keyword-extraction and task-matching core of the 200notes  *)
(* CLI (src/src/lib/taskMapping.ts, class TaskMappingEngine).              *)
(*                                                                         *)
(* A JavaScript string is a sequence of one-character strings, so that     *)
(* substring tests, splitting, trimming and case conversion are computed   *)
(* character by character as the library functions compute them.           *)
(***************************************************************************)
EXTENDS Integers, Sequences, FiniteSets, TLC

(***************************************************************************)
(* Characters and the JavaScript string primitives used by the code        *)
(***************************************************************************)
UpperLetters == <<"A","B","C","D","E","F","G","H","I","J","K","L","M",
                  "N","O","P","Q","R","S","T","U","V","W","X","Y","Z">>

LowerLetters == <<"a","b","c","d","e","f","g","h","i","j","k","l","m",
                  "n","o","p","q","r","s","t","u","v","w","x","y","z">>

Digits == {"0","1","2","3","4","5","6","7","8","9"}

\* [A-Z]
IsUpper(c) == \E i \in 1..26 : UpperLetters[i] = c

\* [a-z]
IsLowerLetter(c) == \E i \in 1..26 : LowerLetters[i] = c

\* \s of a regular expression, and the characters String.prototype.trim removes
IsSpace(c) == c \in {" ", "\t", "\n", "\r"}

\* String.prototype.toLowerCase, one character
ToLowerChar(c) ==
  IF IsUpper(c) THEN LowerLetters[CHOOSE i \in 1..26 : UpperLetters[i] = c] ELSE c

\* String.prototype.toLowerCase
ToLowerCase(s) == [i \in 1..Len(s) |-> ToLowerChar(s[i])]

\* String.prototype.trim
Trim(s) ==
  LET keep == {i \in 1..Len(s) : ~IsSpace(s[i])}
  IN  IF keep = {} THEN <<>>
      ELSE LET lo == CHOOSE i \in keep : \A j \in keep : i <= j
               hi == CHOOSE i \in keep : \A j \in keep : j <= i
           IN  SubSeq(s, lo, hi)

\* String.prototype.includes
Includes(s, k) ==
  \E i \in 0..(Len(s) - Len(k)) : SubSeq(s, i + 1, i + Len(k)) = k

\* Array.prototype.indexOf (0-based, -1 when absent)
IndexOf(arr, x) ==
  IF \E i \in 1..Len(arr) : arr[i] = x
  THEN (CHOOSE i \in 1..Len(arr) : arr[i] = x /\ \A j \in 1..(i - 1) : arr[j] # x) - 1
  ELSE -1

\* Array.prototype.join
RECURSIVE Join(_, _)
Join(arr, sep) ==
  IF arr = <<>> THEN <<>>
  ELSE IF Len(arr) = 1 THEN arr[1]
  ELSE arr[1] \o sep \o Join(Tail(arr), sep)

\* Array.prototype.concat of a list of lists (push(...xs) applied in turn)
RECURSIVE Flatten(_)
Flatten(lists) ==
  IF lists = <<>> THEN <<>> ELSE lists[1] \o Flatten(Tail(lists))

(***************************************************************************)
(* String.prototype.split(separator) for the separators the code uses.     *)
(* MatchEnd(kind, s, q) is the end (0-based, exclusive) of the separator's *)
(* match starting exactly at 0-based position q, or -1 when it does not    *)
(* match there.                                                            *)
(***************************************************************************)
RECURSIVE SpaceRunEnd(_, _)
SpaceRunEnd(s, q) ==
  IF q < Len(s) /\ IsSpace(s[q + 1]) THEN SpaceRunEnd(s, q + 1) ELSE q

MatchEnd(kind, s, q) ==
  CASE kind = "whitespace" ->   \* /\s+/
         IF q < Len(s) /\ IsSpace(s[q + 1]) THEN SpaceRunEnd(s, q) ELSE -1
    [] kind = "camel" ->        \* /(?=[A-Z])/
         IF q < Len(s) /\ IsUpper(s[q + 1]) THEN q ELSE -1
    [] kind = "dash" ->         \* /[-_]/
         IF q < Len(s) /\ s[q + 1] \in {"-", "_"} THEN q + 1 ELSE -1
    [] kind = "sep" ->          \* path.sep
         IF q < Len(s) /\ s[q + 1] = "/" THEN q + 1 ELSE -1
    [] kind = "backslash" ->    \* '\\'
         IF q < Len(s) /\ s[q + 1] = "\\" THEN q + 1 ELSE -1
    [] kind = "comma" ->        \* ','
         IF q < Len(s) /\ s[q + 1] = "," THEN q + 1 ELSE -1
    [] kind = "colon" ->        \* ':'
         IF q < Len(s) /\ s[q + 1] = ":" THEN q + 1 ELSE -1

\* the loop of String.prototype.split: p is the start of the current piece,
\* q the position at which the separator is tried next
RECURSIVE SplitLoop(_, _, _, _, _)
SplitLoop(kind, s, p, q, acc) ==
  IF q >= Len(s) THEN Append(acc, SubSeq(s, p + 1, Len(s)))
  ELSE LET e == MatchEnd(kind, s, q)
       IN  IF e = -1 \/ e = p
           THEN SplitLoop(kind, s, p, q + 1, acc)
           ELSE SplitLoop(kind, s, e, e, Append(acc, SubSeq(s, p + 1, q)))

Split(s, kind) ==
  IF Len(s) = 0
  THEN <<s>>            \* none of the separators matches the empty string
  ELSE SplitLoop(kind, s, 0, 0, <<>>)

\* .filter(Boolean) on a list of strings: drops the empty strings
FilterBoolean(arr) ==
  LET NonEmpty(x) == x # <<>> IN SelectSeq(arr, NonEmpty)

(***************************************************************************)
(* Tasks.  description is optional in the Task type: Undefined stands for  *)
(* an absent description (it is no string: its one element is not a        *)
(* character).                                                             *)
(***************************************************************************)
Undefined == <<"undefined">>

\* the outcome of a call that throws a TypeError instead of returning
TypeError == <<"TypeError">>

Statuses == {"todo", "in_progress", "done"}

ChangeTypes == {"create", "modify", "delete"}

\* the truthiness test of `task.description && ...` and `task.description || ''`
Truthy(description) == description # Undefined /\ description # <<>>

(***************************************************************************)
(* TaskMappingEngine.calculateMatchScore                                   *)
(***************************************************************************)
\* `${task.title} ${task.description || ''} ${task.tags.join(' ')}`.toLowerCase()
TaskText(task) ==
  ToLowerCase(task.title \o <<" ">>
              \o (IF Truthy(task.description) THEN task.description ELSE <<>>)
              \o <<" ">> \o Join(task.tags, <<" ">>))

\* mutant: the title weight and the description weight exchanged
TitleScoreAsDescription(task, keywordLower) ==
  IF Includes(ToLowerCase(task.title), keywordLower) THEN 5 ELSE 0

\* if (task.title.toLowerCase().includes(keywordLower)) score += 10
TitleScore(task, keywordLower) ==
  IF Includes(ToLowerCase(task.title), keywordLower) THEN 10 ELSE 0

\* mutant: the description is searched as it is written
DescriptionScoreCaseSensitive(task, keywordLower) ==
  IF Truthy(task.description) /\ Includes(task.description, keywordLower)
  THEN 5 ELSE 0

\* if (task.description && task.description.toLowerCase().includes(keywordLower)) score += 5
DescriptionScore(task, keywordLower) ==
  IF Truthy(task.description) /\ Includes(ToLowerCase(task.description), keywordLower)
  THEN 5 ELSE 0

\* if (task.tags.some(tag => tag.toLowerCase().includes(keywordLower))) score += 7
TagScore(task, keywordLower) ==
  IF \E i \in 1..Len(task.tags) : Includes(ToLowerCase(task.tags[i]), keywordLower)
  THEN 7 ELSE 0

\* the condition of the partial word match
PartialMatch(word, keywordLower) ==
  Includes(word, keywordLower) \/ Includes(keywordLower, word)

\* for (const word of words) if (...) score += 2
RECURSIVE PartialWordScore(_, _)
PartialWordScore(words, keywordLower) ==
  IF words = <<>> THEN 0
  ELSE (IF PartialMatch(Head(words), keywordLower) THEN 2 ELSE 0)
       + PartialWordScore(Tail(words), keywordLower)

\* const words = taskText.split(/\s+/)
TaskWords(taskText) == Split(taskText, "whitespace")

\* the body of the loop over the keywords: what one keyword adds to the score
KeywordScore(task, keyword) ==
  LET keywordLower == ToLowerCase(keyword)
  IN  TitleScore(task, keywordLower)
      + DescriptionScore(task, keywordLower)
      + TagScore(task, keywordLower)
      + PartialWordScore(TaskWords(TaskText(task)), keywordLower)

\* mutant: every keyword overwrites the score of the keywords before it
RECURSIVE ScoreLoopOverwriting(_, _, _)
ScoreLoopOverwriting(task, keywords, score) ==
  IF keywords = <<>> THEN score
  ELSE ScoreLoopOverwriting(task, Tail(keywords), KeywordScore(task, Head(keywords)))

\* let score = 0; for (const keyword of keywords) { ... score += ... } return score
RECURSIVE ScoreLoop(_, _, _)
ScoreLoop(task, keywords, score) ==
  IF keywords = <<>> THEN score
  ELSE ScoreLoop(task, Tail(keywords), score + KeywordScore(task, Head(keywords)))

CalculateMatchScore(task, keywords) == ScoreLoop(task, keywords, 0)

(***************************************************************************)
(* TaskMappingEngine.findMatchingTasks                                     *)
(***************************************************************************)
\* mutant: score >= 0 in place of score > 0
IsMatchNonNegative(score) == score >= 0

\* if (score > 0) matches.push({ task, score })
IsMatch(score) == score > 0

RECURSIVE CollectMatches(_, _)
CollectMatches(taskList, keywords) ==
  IF taskList = <<>> THEN <<>>
  ELSE LET score == CalculateMatchScore(Head(taskList), keywords)
       IN  (IF IsMatch(score) THEN <<[task |-> Head(taskList), score |-> score]>> ELSE <<>>)
           \o CollectMatches(Tail(taskList), keywords)

\* the comparator (a, b) => b.score - a.score
CompareMatches(a, b) == b.score - a.score

\* mutant: an unstable sort, which places an element before its equals
RECURSIVE InsertSortedUnstable(_, _)
InsertSortedUnstable(sorted, m) ==
  IF sorted = <<>> THEN <<m>>
  ELSE IF CompareMatches(Head(sorted), m) >= 0
       THEN <<m>> \o sorted
       ELSE <<Head(sorted)>> \o InsertSortedUnstable(Tail(sorted), m)

\* Array.prototype.sort is stable (ECMAScript 2019, Node >= 18 per package.json):
\* an element is placed after every earlier element that does not compare greater
RECURSIVE InsertSorted(_, _)
InsertSorted(sorted, m) ==
  IF sorted = <<>> THEN <<m>>
  ELSE IF CompareMatches(Head(sorted), m) > 0
       THEN <<m>> \o sorted
       ELSE <<Head(sorted)>> \o InsertSorted(Tail(sorted), m)

RECURSIVE SortLoop(_, _)
SortLoop(arr, sorted) ==
  IF arr = <<>> THEN sorted ELSE SortLoop(Tail(arr), InsertSorted(sorted, Head(arr)))

SortMatches(arr) == SortLoop(arr, <<>>)

\* mutant: an empty keyword list taken as "no filter"
FindMatchingTasksNoFilter(taskList, keywords) ==
  IF keywords = <<>> THEN taskList
  ELSE LET sorted == SortMatches(CollectMatches(taskList, keywords))
       IN  [i \in 1..Len(sorted) |-> sorted[i].task]

FindMatchingTasks(taskList, keywords) ==
  LET sorted == SortMatches(CollectMatches(taskList, keywords))
  IN  [i \in 1..Len(sorted) |-> sorted[i].task]

(***************************************************************************)
(* TaskMappingEngine.suggestTaskStatus                                     *)
(***************************************************************************)
\* mutant: every edited task is moved to in_progress, done tasks included
SuggestTaskStatusReopening(task, change) ==
  LET currentStatus == task.status
  IN  CASE change \in {"create", "modify"} -> "in_progress"
        [] change = "delete" -> currentStatus
        [] OTHER -> currentStatus

SuggestTaskStatus(task, change) ==
  LET currentStatus == task.status
  IN  CASE change \in {"create", "modify"} ->
             IF currentStatus = "todo" THEN "in_progress" ELSE currentStatus
        [] change = "delete" -> currentStatus
        [] OTHER -> currentStatus

(***************************************************************************)
(* TaskMappingEngine.isCommonWord and the shared clean-up of the keywords  *)
(***************************************************************************)
CommonWords == {
  <<"t","h","e">>, <<"a","n","d">>, <<"f","o","r">>, <<"a","r","e">>, <<"b","u","t">>,
  <<"n","o","t">>, <<"y","o","u">>, <<"a","l","l">>, <<"c","a","n">>, <<"h","a","d">>,
  <<"w","a","s">>, <<"o","n","e">>, <<"o","u","r">>, <<"o","u","t">>, <<"d","a","y">>,
  <<"g","e","t">>, <<"h","a","s">>, <<"h","e","r">>, <<"h","i","s">>, <<"h","o","w">>,
  <<"i","t","s">>, <<"n","e","w">>, <<"n","o","w">>, <<"o","l","d">>, <<"s","e","e">>,
  <<"t","w","o">>, <<"w","a","y">>, <<"w","h","o">>, <<"b","o","y">>, <<"d","i","d">>,
  <<"m","a","n">>, <<"m","a","y">>, <<"s","h","e">>, <<"u","s","e">>, <<"y","o","u","r">>,
  <<"s","a","i","d">>, <<"e","a","c","h">>, <<"m","a","k","e">>, <<"m","o","s","t">>,
  <<"o","v","e","r">>, <<"s","u","c","h">>, <<"t","i","m","e">>, <<"v","e","r","y">>,
  <<"w","h","a","t">>, <<"w","i","t","h">>, <<"h","a","v","e">>, <<"f","r","o","m">>,
  <<"t","h","e","y">>, <<"k","n","o","w">>, <<"w","a","n","t">>, <<"b","e","e","n">>,
  <<"g","o","o","d">>, <<"m","u","c","h">>, <<"s","o","m","e">>, <<"t","h","a","n">>,
  <<"t","h","e","m">>, <<"w","e","l","l">>, <<"w","e","r","e">>, <<"f","u","n","c","t","i","o","n">>,
  <<"r","e","t","u","r","n">>, <<"c","o","n","s","t">>, <<"v","a","r">>,
  <<"l","e","t">>, <<"i","f">>, <<"e","l","s","e">>, <<"w","h","i","l","e">>,
  <<"d","o">>, <<"t","r","y">>, <<"c","a","t","c","h">>, <<"t","h","r","o","w">>,
  <<"t","h","i","s">>, <<"s","u","p","e","r">>, <<"e","x","t","e","n","d","s">>,
  <<"i","m","p","l","e","m","e","n","t","s">>, <<"i","n","t","e","r","f","a","c","e">>,
  <<"t","y","p","e">>, <<"e","x","p","o","r","t">>, <<"i","m","p","o","r","t">>,
  <<"d","e","f","a","u","l","t">>, <<"a","s","y","n","c">>, <<"a","w","a","i","t">>,
  <<"p","u","b","l","i","c">>, <<"p","r","i","v","a","t","e">>, <<"p","r","o","t","e","c","t","e","d">>,
  <<"s","t","a","t","i","c">>, <<"f","i","n","a","l">>, <<"a","b","s","t","r","a","c","t">>,
  <<"c","l","a","s","s">>, <<"n","a","m","e","s","p","a","c","e">>,
  <<"d","e","f">>, <<"a","s">>, <<"e","l","i","f">>, <<"e","x","c","e","p","t">>,
  <<"f","i","n","a","l","l","y">>, <<"l","a","m","b","d","a">>, <<"y","i","e","l","d">>,
  <<"i","n","d","e","x">>, <<"m","a","i","n">>, <<"a","p","p">>, <<"s","r","c">>,
  <<"t","e","s","t">>, <<"t","e","s","t","s">>, <<"l","i","b">>, <<"l","i","b","s">>,
  <<"c","o","n","f","i","g">>, <<"d","i","s","t">>, <<"b","u","i","l","d">>,
  <<"n","o","d","e">>, <<"m","o","d","u","l","e","s">> }

IsCommonWord(word) == ToLowerCase(word) \in CommonWords

\* mutant: the keywords are lower-cased but not trimmed
NormalizeKeywordUntrimmed(keyword) == ToLowerCase(keyword)

\* .map(keyword => keyword.toLowerCase().trim())
NormalizeKeyword(keyword) == Trim(ToLowerCase(keyword))

\* keyword => keyword.length > 2 && !isCommonWord(keyword)
KeepKeyword(keyword) == Len(keyword) > 2 /\ ~IsCommonWord(keyword)

\* mutant: lastIndexOf in place of indexOf, which keeps the last occurrence
RemoveDuplicatesKeepingLast(arr) ==
  LET last == {i \in 1..Len(arr) : \A j \in (i + 1)..Len(arr) : arr[j] # arr[i]}
      Nth(n) == CHOOSE i \in last : Cardinality({j \in last : j < i}) = n - 1
  IN  [n \in 1..Cardinality(last) |-> arr[Nth(n)]]

\* .filter((keyword, index, arr) => arr.indexOf(keyword) === index)
RemoveDuplicates(arr) ==
  LET first == {i \in 1..Len(arr) : IndexOf(arr, arr[i]) = i - 1}
      Nth(n) == CHOOSE i \in first : Cardinality({j \in first : j < i}) = n - 1
  IN  [n \in 1..Cardinality(first) |-> arr[Nth(n)]]

CleanKeywords(candidates) ==
  LET normalized == [i \in 1..Len(candidates) |-> NormalizeKeyword(candidates[i])]
  IN  RemoveDuplicates(SelectSeq(normalized, KeepKeyword))

(***************************************************************************)
(* path.basename, path.dirname (POSIX) and extractKeywordsFromPath         *)
(***************************************************************************)
\* path.basename(p): the last portion of p, trailing separators ignored
Basename(p) ==
  LET nonSep == {i \in 1..Len(p) : p[i] # "/"}
  IN  IF nonSep = {} THEN <<>>
      ELSE LET end == CHOOSE i \in nonSep : \A j \in nonSep : j <= i
               seps == {i \in 1..end : p[i] = "/"}
               start == IF seps = {} THEN 1
                        ELSE 1 + CHOOSE i \in seps : \A j \in seps : j <= i
           IN  SubSeq(p, start, end)

\* path.dirname(p): scanning from the end (never looking at the first
\* character), the first separator found after a non-separator ends the result
Dirname(p) ==
  IF Len(p) = 0 THEN <<".">>
  ELSE LET hasRoot == p[1] = "/"
           cuts == {i \in 2..Len(p) :
                      p[i] = "/" /\ \E j \in (i + 1)..Len(p) : p[j] # "/"}
       IN  IF cuts = {} THEN (IF hasRoot THEN <<"/">> ELSE <<".">>)
           ELSE LET end == CHOOSE i \in cuts : \A j \in cuts : j <= i
                IN  IF hasRoot /\ end = 2 THEN <<"/", "/">>
                    ELSE SubSeq(p, 1, end - 1)

\* filename.replace(/\.[^/.]+$/, '')
StripExtension(filename) ==
  LET dots == {i \in 1..Len(filename) :
                 /\ filename[i] = "."
                 /\ i < Len(filename)
                 /\ \A j \in (i + 1)..Len(filename) : filename[j] \notin {"/", "."}}
  IN  IF dots = {} THEN filename
      ELSE SubSeq(filename, 1, (CHOOSE i \in dots : TRUE) - 1)

\* nameWithoutExt.split(/(?=[A-Z])/).filter(Boolean)
CamelCaseWords(nameWithoutExt) == FilterBoolean(Split(nameWithoutExt, "camel"))

\* nameWithoutExt.split(/[-_]/).filter(Boolean)
SeparatedWords(nameWithoutExt) == FilterBoolean(Split(nameWithoutExt, "dash"))

\* mutant: the whole path is split, not its dirname
DirectoryNamesOfWholePath(p) ==
  LET IsDir(dir) == dir # <<".">> /\ dir # <<"/">>
  IN  SelectSeq(Split(p, "sep"), IsDir)

\* path.dirname(filePath).split(path.sep).filter(dir => dir !== '.' && dir !== '/')
DirectoryNames(p) ==
  LET IsDir(dir) == dir # <<".">> /\ dir # <<"/">>
  IN  SelectSeq(Split(Dirname(p), "sep"), IsDir)

\* mutant: the file name itself is not pushed, only its pieces
PathCandidatesPiecesOnly(p) ==
  LET nameWithoutExt == StripExtension(Basename(p))
  IN  CamelCaseWords(nameWithoutExt)
      \o SeparatedWords(nameWithoutExt) \o DirectoryNames(p)

\* the keywords array before the clean-up
PathCandidates(p) ==
  LET nameWithoutExt == StripExtension(Basename(p))
  IN  <<nameWithoutExt>> \o CamelCaseWords(nameWithoutExt)
      \o SeparatedWords(nameWithoutExt) \o DirectoryNames(p)

ExtractKeywordsFromPath(p) == CleanKeywords(PathCandidates(p))

(***************************************************************************)
(* The regular expressions of the content extractors.  PatternEnd(kind, s, *)
(* q) is the end (0-based, exclusive) of the pattern's match starting      *)
(* exactly at 0-based position q, or -1 when it does not match there.      *)
(***************************************************************************)
\* \w
IsWordChar(c) == IsUpper(c) \/ IsLowerLetter(c) \/ c \in Digits \/ c = "_"

\* the characters '.' of a regular expression does not match
IsLineTerminator(c) == c \in {"\n", "\r"}

IsQuote(c) == c \in {"'", "\""}

InClass(class, c) ==
  CASE class = "space" -> IsSpace(c)                      \* \s
    [] class = "word" -> IsWordChar(c)                    \* \w
    [] class = "nsword" -> IsWordChar(c) \/ c = "\\"      \* [\w\\]
    [] class = "letter" -> IsUpper(c) \/ IsLowerLetter(c) \* [a-zA-Z]
    [] class = "hash" -> c = "#"                          \* #
    [] class = "nonquote" -> ~IsQuote(c)                  \* [^'"]
    [] class = "line" -> ~IsLineTerminator(c)             \* .

\* the end of the longest run of characters of the class starting at q
RECURSIVE RunEnd(_, _, _)
RunEnd(class, s, q) ==
  IF q < Len(s) /\ InClass(class, s[q + 1]) THEN RunEnd(class, s, q + 1) ELSE q

StartsWithAt(s, q, literal) ==
  q + Len(literal) <= Len(s) /\ SubSeq(s, q + 1, q + Len(literal)) = literal

\* literal\s+(class+)
LiteralThenName(literal, class, s, q) ==
  IF StartsWithAt(s, q, literal)
  THEN LET a == RunEnd("space", s, q + Len(literal))
           b == RunEnd(class, s, a)
       IN  IF a > q + Len(literal) /\ b > a THEN b ELSE -1
  ELSE -1

\* from\s+['"]([^'"]+)['"]
FromClauseEnd(s, f) ==
  IF StartsWithAt(s, f, <<"f","r","o","m">>)
  THEN LET a == RunEnd("space", s, f + 4)
           b == RunEnd("nonquote", s, a + 1)
       IN  IF /\ a > f + 4
              /\ a < Len(s) /\ IsQuote(s[a + 1])
              /\ b > a + 1
              /\ b < Len(s) /\ IsQuote(s[b + 1])
           THEN b + 1 ELSE -1
  ELSE -1

\* import.*from\s+['"]([^'"]+)['"] : the greedy .* stays on the line of
\* "import" and gives back characters until a from-clause matches
ImportEnd(s, q) ==
  IF StartsWithAt(s, q, <<"i","m","p","o","r","t">>)
  THEN LET lineEnd == RunEnd("line", s, q + 6)
           froms == {f \in (q + 6)..lineEnd : FromClauseEnd(s, f) # -1}
       IN  IF froms = {} THEN -1
           ELSE FromClauseEnd(s, CHOOSE f \in froms : \A g \in froms : g <= f)
  ELSE -1

\* \s+(.+) after position h: the greedy \s+ gives back characters until one
\* that is no line terminator follows; (.+) then runs to the end of the line
SpaceThenRestOfLine(s, h) ==
  LET w == RunEnd("space", s, h)
      starts == {n \in (h + 1)..w : n < Len(s) /\ ~IsLineTerminator(s[n + 1])}
  IN  IF starts = {} THEN -1
      ELSE RunEnd("line", s, CHOOSE n \in starts : \A k \in starts : k <= n)

\* #{1,6}\s+(.+)
HeaderEnd(s, q) ==
  LET h == RunEnd("hash", s, q)
  IN  IF h - q >= 1 /\ h - q <= 6 THEN SpaceThenRestOfLine(s, h) ELSE -1

\* [-*]\s+\[.\]\s+(.+)
TaskItemEnd(s, q) ==
  IF q < Len(s) /\ s[q + 1] \in {"-", "*"}
  THEN LET a == RunEnd("space", s, q + 1)
       IN  IF /\ a > q + 1
              /\ a + 3 <= Len(s)
              /\ s[a + 1] = "["
              /\ ~IsLineTerminator(s[a + 2])
              /\ s[a + 3] = "]"
           THEN SpaceThenRestOfLine(s, a + 3) ELSE -1
  ELSE -1

\* \b[A-Z][a-zA-Z]+\b
CapitalizedWordEnd(s, q) ==
  IF /\ q < Len(s) /\ IsUpper(s[q + 1])
     /\ (q = 0 \/ ~IsWordChar(s[q]))
  THEN LET r == RunEnd("letter", s, q)
       IN  IF r - q >= 2 /\ (r = Len(s) \/ ~IsWordChar(s[r + 1])) THEN r ELSE -1
  ELSE -1

\* (?:function\s+|const\s+|let\s+|var\s+)(\w+)
DeclarationEnd(s, q) ==
  LET ends == {LiteralThenName(literal, "word", s, q) :
                 literal \in {<<"f","u","n","c","t","i","o","n">>, <<"c","o","n","s","t">>,
                              <<"l","e","t">>, <<"v","a","r">>}} \ {-1}
  IN  IF ends = {} THEN -1 ELSE CHOOSE e \in ends : TRUE

PatternEnd(kind, s, q) ==
  CASE kind = "declaration" -> DeclarationEnd(s, q)
    [] kind = "class" ->        \* class\s+(\w+)
         LiteralThenName(<<"c","l","a","s","s">>, "word", s, q)
    [] kind = "function" ->     \* function\s+(\w+)
         LiteralThenName(<<"f","u","n","c","t","i","o","n">>, "word", s, q)
    [] kind = "def" ->          \* def\s+(\w+)
         LiteralThenName(<<"d","e","f">>, "word", s, q)
    [] kind = "namespace" ->    \* namespace\s+([\w\\]+)
         LiteralThenName(<<"n","a","m","e","s","p","a","c","e">>, "nsword", s, q)
    [] kind = "import" -> ImportEnd(s, q)
    [] kind = "header" -> HeaderEnd(s, q)
    [] kind = "taskitem" -> TaskItemEnd(s, q)
    [] kind = "capitalized" -> CapitalizedWordEnd(s, q)

\* content.match(/.../g): the matches from left to right, none overlapping
\* (the empty list where match returns null)
\* starts: the positions at which the pattern matches; q: lastIndex
RECURSIVE MatchLoop(_, _, _, _, _)
MatchLoop(kind, s, starts, q, acc) ==
  LET later == {n \in starts : n >= q}
      Continue(n, e) == MatchLoop(kind, s, starts, e, Append(acc, SubSeq(s, n + 1, e)))
      First(n) == Continue(n, PatternEnd(kind, s, n))
  IN  IF later = {} THEN acc
      ELSE First(CHOOSE x \in later : \A y \in later : x <= y)

MatchAll(s, kind) ==
  MatchLoop(kind, s, {q \in 0..(Len(s) - 1) : PatternEnd(kind, s, q) # -1}, 0, <<>>)

\* match.split(/\s+/)[1]: undefined when the split has one piece only
SecondPiece(match) ==
  LET pieces == Split(match, "whitespace")
  IN  IF Len(pieces) >= 2 THEN pieces[2] ELSE Undefined

\* match.split(/\s+/).pop()
LastPiece(match) ==
  LET pieces == Split(match, "whitespace") IN pieces[Len(pieces)]

\* match.match(/['"]([^'"]+)['"]/)![1]: the first quoted, non-empty string;
\* reading [1] of null throws where nothing is quoted
FirstQuoted(match) ==
  LET opens == {i \in 0..(Len(match) - 1) :
                  /\ IsQuote(match[i + 1])
                  /\ RunEnd("nonquote", match, i + 1) > i + 1
                  /\ RunEnd("nonquote", match, i + 1) < Len(match)}
  IN  IF opens = {} THEN TypeError
      ELSE LET i == CHOOSE o \in opens : \A n \in opens : o <= n
           IN  SubSeq(match, i + 2, RunEnd("nonquote", match, i + 1))

\* path.extname(p): from the last '.' of the last portion of p on; empty when
\* there is none, when it is the first character, or when the portion is '..'
Extname(p) ==
  LET base == Basename(p)
      dots == {i \in 1..Len(base) : base[i] = "."}
  IN  IF dots = {} THEN <<>>
      ELSE LET startDot == CHOOSE i \in dots : \A j \in dots : j <= i
           IN  IF startDot = 1 \/ base = <<".", ".">> THEN <<>>
               ELSE SubSeq(base, startDot, Len(base))

\* path.basename(p, ext)
BasenameWithout(p, ext) ==
  LET base == Basename(p)
  IN  IF ext = <<>> \/ Len(ext) > Len(p) THEN base
      ELSE IF ext = p THEN <<>>
      ELSE IF Len(base) > Len(ext) /\ SubSeq(base, Len(base) - Len(ext) + 1, Len(base)) = ext
           THEN SubSeq(base, 1, Len(base) - Len(ext))
           ELSE base

\* arr.map(f)
MapSeq(arr, F(_)) == [i \in 1..Len(arr) |-> F(arr[i])]

(***************************************************************************)
(* The content extractors and extractKeywordsFromContent                   *)
(***************************************************************************)
ModuleBaseName(match) ==
  LET moduleName == FirstQuoted(match)
  IN  IF moduleName = TypeError THEN TypeError
      ELSE BasenameWithout(moduleName, Extname(moduleName))

ExtractJSKeywords(text) ==
  MapSeq(MatchAll(text, "declaration"), LastPiece)
  \o MapSeq(MatchAll(text, "class"), SecondPiece)
  \o MapSeq(MatchAll(text, "import"), ModuleBaseName)

\* namespace.split('\\').pop()
LastNamespaceSegment(match) ==
  LET namespace == SecondPiece(match)
  IN  IF namespace = Undefined THEN TypeError
      ELSE LET segments == Split(namespace, "backslash") IN segments[Len(segments)]

ExtractPHPKeywords(text) ==
  MapSeq(MatchAll(text, "class"), SecondPiece)
  \o MapSeq(MatchAll(text, "function"), SecondPiece)
  \o MapSeq(MatchAll(text, "namespace"), LastNamespaceSegment)

ExtractPythonKeywords(text) ==
  MapSeq(MatchAll(text, "class"), SecondPiece)
  \o MapSeq(MatchAll(text, "def"), SecondPiece)

\* match.replace(/#{1,6}\s+/, '').trim()
HeaderText(match) ==
  Trim(SubSeq(match, RunEnd("space", match, RunEnd("hash", match, 0)) + 1, Len(match)))

\* match.replace(/[-*]\s+\[.\]\s+/, '').trim()
TaskItemText(match) ==
  Trim(SubSeq(match, RunEnd("space", match, RunEnd("space", match, 1) + 3) + 1, Len(match)))

ExtractMarkdownKeywords(text) ==
  MapSeq(MatchAll(text, "header"), HeaderText)
  \o MapSeq(MatchAll(text, "taskitem"), TaskItemText)

ExtractGenericKeywords(text) ==
  LET Long(word) == Len(word) > 3
  IN  SelectSeq(MatchAll(text, "capitalized"), Long)

\* mutant: the switch on the extension as written in the path
ContentCandidatesCaseSensitive(text, p) ==
  LET ext == Extname(p)
  IN  CASE ext \in {<<".","j","s">>, <<".","t","s">>, <<".","j","s","x">>, <<".","t","s","x">>} ->
             ExtractJSKeywords(text)
        [] ext = <<".","p","h","p">> -> ExtractPHPKeywords(text)
        [] ext = <<".","p","y">> -> ExtractPythonKeywords(text)
        [] ext = <<".","m","d">> -> ExtractMarkdownKeywords(text)
        [] OTHER -> ExtractGenericKeywords(text)

\* the switch on path.extname(filePath).toLowerCase()
ContentCandidates(text, p) ==
  LET ext == ToLowerCase(Extname(p))
  IN  CASE ext \in {<<".","j","s">>, <<".","t","s">>, <<".","j","s","x">>, <<".","t","s","x">>} ->
             ExtractJSKeywords(text)
        [] ext = <<".","p","h","p">> -> ExtractPHPKeywords(text)
        [] ext = <<".","p","y">> -> ExtractPythonKeywords(text)
        [] ext = <<".","m","d">> -> ExtractMarkdownKeywords(text)
        [] OTHER -> ExtractGenericKeywords(text)

\* a callback of an extractor that throws ends the call; so does
\* keyword.toLowerCase() on a candidate that is undefined
ExtractKeywordsFromContent(text, p) ==
  LET Finish(candidates) ==
        IF \E i \in 1..Len(candidates) : candidates[i] \in {Undefined, TypeError}
        THEN TypeError
        ELSE CleanKeywords(candidates)
  IN  Finish(ContentCandidates(text, p))


(***************************************************************************)
(* NotesApiClient.findTasksByKeywords and testConnection (lib/api.ts)      *)
(***************************************************************************)
\* mutant: the keywords are compared as they are written
FindTasksByKeywordsCaseSensitive(allTasks, keywordList) ==
  LET SearchText(t) ==
        ToLowerCase(t.title \o <<" ">>
                    \o (IF Truthy(t.description) THEN t.description ELSE <<>>)
                    \o <<" ">> \o Join(t.tags, <<" ">>))
      Matches(t) ==
        \E i \in 1..Len(keywordList) : Includes(SearchText(t), keywordList[i])
  IN  SelectSeq(allTasks, Matches)

\* allTasks.filter(task => keywords.some(keyword =>
\*   searchText.includes(keyword.toLowerCase())))
FindTasksByKeywords(allTasks, keywordList) ==
  LET SearchText(t) ==
        ToLowerCase(t.title \o <<" ">>
                    \o (IF Truthy(t.description) THEN t.description ELSE <<>>)
                    \o <<" ">> \o Join(t.tags, <<" ">>))
      Matches(t) ==
        \E i \in 1..Len(keywordList) :
          Includes(SearchText(t), ToLowerCase(keywordList[i]))
  IN  SelectSeq(allTasks, Matches)


\* mutant: the catch handles the errors the response interceptor made only
TestConnectionRethrowing(reply) ==
  LET getProjects ==
        IF reply.answered /\ reply.status \in 200..299
        THEN [threw |-> FALSE, value |-> reply.body.data]
        ELSE [threw |-> TRUE, value |-> reply]
  IN  IF getProjects.threw
      THEN [threw |-> ~(reply.answered /\ reply.status \in {401, 403}), value |-> FALSE]
      ELSE [threw |-> FALSE, value |-> TRUE]

\* try { await this.getProjects(); return true } catch (error) { return false }
\* The request is rejected when no response arrives and when the status is
\* outside 2xx (the response interceptor rethrows, with a message of its own
\* for 401 and 403); getProjects then reads response.data.data.
TestConnection(reply) ==
  LET getProjects ==
        IF reply.answered /\ reply.status \in 200..299
        THEN [threw |-> FALSE, value |-> reply.body.data]
        ELSE [threw |-> TRUE, value |-> reply]
  IN  IF getProjects.threw
      THEN [threw |-> FALSE, value |-> FALSE]
      ELSE [threw |-> FALSE, value |-> TRUE]

(***************************************************************************)
(* Inputs of the checked calls                                             *)
(***************************************************************************)
MaxKeywords == 2
MaxTasks == 3
MaxPathLen == 4
MaxChanges == 3
MaxRuns == 3

\* all sequences over S of length at most n
RECURSIVE SeqsUpTo(_, _)
SeqsUpTo(S, n) ==
  IF n = 0 THEN {<<>>}
  ELSE LET shorter == SeqsUpTo(S, n - 1)
       IN  shorter \cup {Append(s, x) : s \in {t \in shorter : Len(t) = n - 1}, x \in S}

Titles == {
  <<"S","t","r","i","p","e"," ","w","e","b","h","o","o","k"," ","i","m","p","l","e","m","e","n","t","a","t","i","o","n">>,
  <<"S","o","m","e"," ","t","a","s","k">>,
  <<"S","t","r","i","p","e">>,
  <<"P","a","y"," ","a","p","i">> }

Descriptions == {
  Undefined,
  <<>>,
  <<"H","a","n","d","l","e"," ","p","a","y","m","e","n","t"," ","c","o","n","f","i","r","m","a","t","i","o","n","s"," ","f","r","o","m"," ","S","t","r","i","p","e">>,
  <<"H","a","n","d","l","e"," ","s","t","r","i","p","e"," ","p","a","y","m","e","n","t","s">>,
  <<"s","t","r","i","p","e"," ","s","t","r","i","p","e"," ","s","t","r","i","p","e"," ","s","t","r","i","p","e">> }

TagLists == {
  <<>>,
  <<<<"s","t","r","i","p","e">>, <<"w","e","b","h","o","o","k">>, <<"p","a","y","m","e","n","t">>>>,
  <<<<"a","p","i">>>>,
  <<<<"P","a","y">>>> }

KeywordPool == {
  <<"s","t","r","i","p","e">>,
  <<"P","a","y","m","e","n","t">>,
  <<"n","o","n","e","x","i","s","t","e","n","t">>,
  <<"a","p","i">> }

\* the tasks calculateMatchScore is called on
ScoreTasks ==
  {[id |-> 1, title |-> t, description |-> d, tags |-> g, status |-> "todo"] :
     t \in Titles, d \in Descriptions, g \in TagLists}

\* the tasks fetched for findMatchingTasks: 2 and 4 differ in the id only
MatchTasks == {
  [id |-> 1, title |-> <<"S","t","r","i","p","e"," ","w","e","b","h","o","o","k"," ","i","m","p","l","e","m","e","n","t","a","t","i","o","n">>,
   description |-> <<"H","a","n","d","l","e"," ","p","a","y","m","e","n","t"," ","c","o","n","f","i","r","m","a","t","i","o","n","s"," ","f","r","o","m"," ","S","t","r","i","p","e">>,
   tags |-> <<<<"s","t","r","i","p","e">>, <<"w","e","b","h","o","o","k">>, <<"p","a","y","m","e","n","t">>>>, status |-> "todo"],
  [id |-> 2, title |-> <<"S","o","m","e"," ","t","a","s","k">>,
   description |-> <<"H","a","n","d","l","e"," ","s","t","r","i","p","e"," ","p","a","y","m","e","n","t","s">>,
   tags |-> <<>>, status |-> "in_progress"],
  [id |-> 3, title |-> <<"S","o","m","e"," ","t","a","s","k">>,
   description |-> Undefined,
   tags |-> <<<<"a","p","i">>>>, status |-> "done"],
  [id |-> 4, title |-> <<"S","o","m","e"," ","t","a","s","k">>,
   description |-> <<"H","a","n","d","l","e"," ","s","t","r","i","p","e"," ","p","a","y","m","e","n","t","s">>,
   tags |-> <<>>, status |-> "in_progress"] }

MatchKeywordPool == {
  <<"s","t","r","i","p","e">>,
  <<"a","p","i">> }

\* a task in each status for suggestTaskStatus
StatusTasks ==
  {[id |-> 1, title |-> <<"S","o","m","e"," ","t","a","s","k">>, description |-> Undefined,
    tags |-> <<>>, status |-> s] : s \in Statuses}

ExamplePaths == {
  <<>>,
  <<"s","r","c","/","c","o","n","t","r","o","l","l","e","r","s","/","P","a","y","m","e","n","t","C","o","n","t","r","o","l","l","e","r",".","j","s">>,
  <<"s","t","r","i","p","e","_","w","e","b","h","o","o","k","_","h","a","n","d","l","e","r",".","j","s">>,
  <<"p","a","y","m","e","n","t","-","s","e","r","v","i","c","e",".","j","s">>,
  <<"s","r","c","/","i","n","d","e","x",".","j","s">>,
  <<"p","a","y","m","e","n","t","/","P","a","y","m","e","n","t","S","e","r","v","i","c","e",".","j","s">>,
  <<"U","s","e","r","C","o","n","t","r","o","l","l","e","r",".","t","s">>,
  <<"D","o","c","k","e","r","f","i","l","e">>,
  <<"a",".","j","s">>,
  <<"s","r","c","/","s","p","e","c","i","a","l","-","c","h","a","r","s","_","@","#","$",".","j","s">>,
  <<"/","a","b","s","/","l","i","b","/","F","o","o","B","a","r",".","t","e","s","t",".","t","s">>,
  <<".","/","d","o","c","s","/","x","_","y",".","m","d">>,
  <<" ","M","y"," ","F","i","l","e"," ",".","t","x","t">>,
  <<".","g","i","t","i","g","n","o","r","e">>,
  <<"n","o","t","e","s",".">>,
  <<"p","k","g","/","/","s","u","b","/">>,
  <<".",".">>,
  <<"/">>,
  <<"D","o","c","k","e","r","f","i","l","e"," ">>,
  <<" ","a","b">> }

PathAlphabet == {"a", "L", "_", "/", "."}

PathPool == ExamplePaths \cup SeqsUpTo(PathAlphabet, MaxPathLen)

\* file contents, one per extractor, and the empty file
JavaScriptSample ==
  <<"f","u","n","c","t","i","o","n"," ","c","r","e","a","t","e","P","a","y","m","e","n",
    "t","(",")"," ","{","}","\n","c","o","n","s","t"," ","p","r","o","c","e","s","s","R",
    "e","f","u","n","d"," ","="," ","(",")"," ","=",">"," ","{","}","\n","l","e","t"," ",
    " ","v","a","l","i","d","a","t","e","S","t","r","i","p","e"," ","="," ","f","u","n",
    "c","t","i","o","n","(",")"," ","{","}","\n","v","a","r"," ","t","h","e"," ","="," ",
    "1","\n","c","l","a","s","s"," ","P","a","y","m","e","n","t","C","o","n","t","r","o",
    "l","l","e","r"," ","{","}","\n","c","l","a","s","s"," ","F","o","r"," ","{","}","\n",
    "i","m","p","o","r","t"," ","{"," ","P","a","y","m","e","n","t","S","e","r","v","i",
    "c","e"," ","}"," ","f","r","o","m"," ","'",".","/","p","a","y","m","e","n","t","-",
    "s","e","r","v","i","c","e",".","j","s","'",";","\n","i","m","p","o","r","t"," ","s",
    "t","r","i","p","e"," ","f","r","o","m"," ","\"","s","t","r","i","p","e","\"",";"," ",
    "c","o","n","s","t"," ","c","r","e","a","t","e","P","a","y","m","e","n","t"," ","=",
    " ","2">>

PhpSample ==
  <<"<","?","p","h","p","\n","n","a","m","e","s","p","a","c","e"," ","A","p","p","\\","S",
    "e","r","v","i","c","e","s",";","\n","c","l","a","s","s"," ","P","a","y","m","e","n",
    "t","C","o","n","t","r","o","l","l","e","r"," ","{","\n"," ","p","u","b","l","i","c",
    " ","f","u","n","c","t","i","o","n"," ","p","r","o","c","e","s","s","P","a","y","m",
    "e","n","t","(",")"," ","{","}","\n","}">>

PythonSample ==
  <<"c","l","a","s","s"," ","P","a","y","m","e","n","t","P","r","o","c","e","s","s","o",
    "r",":","\n"," "," "," "," ","d","e","f"," ","p","r","o","c","e","s","s","_","p","a",
    "y","m","e","n","t","(","s","e","l","f",")",":","\n"," "," "," "," "," "," "," "," ",
    "p","a","s","s","\n"," "," ","d","e","f"," ","u","s","e","(","x",")">>

MarkdownSample ==
  <<"#"," ","P","a","y","m","e","n","t"," ","I","n","t","e","g","r","a","t","i","o","n",
    " ","\n","#","#"," ","S","t","r","i","p","e"," ","S","e","t","u","p","\n","-"," ","[",
    "x","]"," ","C","o","n","f","i","g","u","r","e"," ","S","t","r","i","p","e"," ","k",
    "e","y","s","\n","*"," ","["," ","]"," ","A","d","d"," ","p","a","y","m","e","n","t",
    " ","v","a","l","i","d","a","t","i","o","n","\n","#"," "," ","\n","#","#","#","#","#",
    "#","#"," ","D","e","e","p","\n","#"," ","T","h","e","\n","#","#"," ","s","t","r","i",
    "p","e"," ","s","e","t","u","p">>

PlainTextSample ==
  <<"P","a","y","m","e","n","t"," ","G","a","t","e","w","a","y"," ","f","o","r"," ","S",
    "t","r","i","p","e"," ","A","n","d"," ","T","h","e"," ","A","P","I","_","k","e","y",
    " ","F","o","o","1"," ","A","b"," ","p","a","y","m","e","n","t"," ","P","a","y","m",
    "e","n","t">>

\* keywords without a name, quotes without a module, markers without a text
DegenerateSample ==
  <<"c","l","a","s","s"," ","\n","f","u","n","c","t","i","o","n","\n","i","m","p","o","r",
    "t"," ","f","r","o","m"," ","'","'","\n","i","m","p","o","r","t"," ","'","a","'"," ",
    "f","r","o","m","\n","'","b",".","c","'","\n","n","a","m","e","s","p","a","c","e"," ",
    "\\","\n","d","e","f"," ","\n","#","\n","-"," ","[","]"," ","y","\n","*"," ","[","x",
    "]","\n","c","o","n","s","t"," "," ","\n","X">>

ContentPool ==
  {JavaScriptSample, PhpSample, PythonSample, MarkdownSample, PlainTextSample,
   DegenerateSample, <<>>}

\* the paths that select the extractor
ContentPaths == {
  <<"t","e","s","t",".","j","s">>,
  <<"T","e","s","t",".","T","S">>,
  <<"a",".","j","s","x">>,
  <<"b",".","t","s","x">>,
  <<"t","e","s","t",".","p","h","p">>,
  <<"t","e","s","t",".","p","y">>,
  <<"R","E","A","D","M","E",".","m","d">>,
  <<"n","o","t","e","s",".","t","x","t">>,
  <<"M","a","k","e","f","i","l","e">>,
  <<".","j","s">>,
  <<"d","o","c","s",".","m","d","/","f","i","l","e">>,
  <<"l","i","b","/","a",".","P","Y","/">>,
  <<>> }

NoTask == [id |-> 0, title |-> <<>>, description |-> Undefined, tags |-> <<>>,
           status |-> "todo"]

(***************************************************************************)
(* State.  The engine keeps no state of its own: the state of a call of    *)
(* one of its operations is the call's arguments, its position and its     *)
(* return value.  The configuration manager's state is the two files it    *)
(* reads and writes: a file is missing, holds a JSON object (a function    *)
(* from its keys to its values, which are strings), or holds text that     *)
(* readJson cannot parse.  The command line's state is the running         *)
(* commands and the tasks of the server they talk to.                      *)
(***************************************************************************)
VARIABLES
  op,          \* the operation called
  pc,          \* "call" before the operation ran, "done" after it returned
  filePath,    \* argument filePath
  content,     \* argument content
  task,        \* argument task
  tasks,       \* argument tasks
  keywords,    \* argument keywords
  changeType,  \* argument changeType
  result,      \* the value returned
  globalConfigFile,   \* ~/.config/200notes/config.json
  projectConfigFile,  \* .200notes.json of the working directory
  config,             \* argument config of setGlobalConfig, setProjectConfig
  updates,            \* argument updates of updateGlobalConfig, updateProjectConfig
  processes,          \* the running commands of the command line, or the
                      \* concurrent callers of the configuration manager
  serverTasks,        \* MockNotesServer.tasks
  answer,             \* the answer of the service to the request of a client call
  env,                \* post_tool_use.sh: TOOL_TYPE, FILE_PATH and CONTENT of the run,
                      \* whether 200notes is on the PATH, the date, and who wrote CLAUDE.md
  history             \* what happened so far, oldest first: the calls made on a task
                      \* (suggestTaskStatus), or the functions run, the commands run, the
                      \* requests sent and the files written by a run of the hook

vars == <<op, pc, filePath, content, task, tasks, keywords, changeType, result,
          globalConfigFile, projectConfigFile, config, updates, processes, serverTasks,
          answer, env, history>>

\* fs.pathExists(file) is false
MissingFile == [kind |-> "missing", data |-> <<>>]

Pending == "pending"

InitPath ==
  /\ op = "extractKeywordsFromPath"
  /\ filePath \in PathPool
  /\ content = <<>> /\ task = NoTask /\ tasks = <<>> /\ keywords = <<>> /\ changeType = "modify"

InitScore ==
  /\ op = "calculateMatchScore"
  /\ task \in ScoreTasks
  /\ keywords \in SeqsUpTo(KeywordPool, MaxKeywords)
  /\ filePath = <<>> /\ content = <<>> /\ tasks = <<>> /\ changeType = "modify"

InitMatch ==
  /\ op = "findMatchingTasks"
  /\ tasks \in SeqsUpTo(MatchTasks, MaxTasks)
  /\ keywords \in SeqsUpTo(MatchKeywordPool, MaxKeywords)
  /\ filePath = <<>> /\ content = <<>> /\ task = NoTask /\ changeType = "modify"

InitStatus ==
  /\ op = "suggestTaskStatus"
  /\ task \in StatusTasks
  /\ changeType \in ChangeTypes
  /\ filePath = <<>> /\ content = <<>> /\ tasks = <<>> /\ keywords = <<>>

InitContent ==
  /\ op = "extractKeywordsFromContent"
  /\ content \in ContentPool
  /\ filePath \in ContentPaths
  /\ task = NoTask /\ tasks = <<>> /\ keywords = <<>> /\ changeType = "modify"

Init ==
  /\ pc = "call"
  /\ result = Pending
  /\ globalConfigFile = MissingFile /\ projectConfigFile = MissingFile
  /\ config = <<>> /\ updates = <<>>
  /\ processes = <<>> /\ serverTasks = <<>>
  /\ env = <<>> /\ history = <<>>
  /\ \/ InitPath
     \/ InitContent
     \/ InitScore
     \/ InitMatch
     \/ InitStatus
     \/ \* findTasksByKeywords on the tasks of its test (api.test.ts) as fetched
        LET MockTask(id, title, description, tags) ==
              [id |-> id, title |-> title, description |-> description, tags |-> tags,
               status |-> "todo"]
            fetched ==
              { MockTask(1, <<"S","t","r","i","p","e"," ","i","n","t","e","g","r","a","t","i","o","n">>, <<"T","e","s","t"," ","t","a","s","k"," ","d","e","s","c","r","i","p","t","i","o","n">>, <<<<"p","a","y","m","e","n","t">>>>),
                MockTask(2, <<"U","s","e","r"," ","p","r","o","f","i","l","e">>, <<"T","e","s","t"," ","t","a","s","k"," ","d","e","s","c","r","i","p","t","i","o","n">>, <<<<"u","s","e","r">>>>),
                MockTask(3, <<"P","a","y","m","e","n","t"," ","g","a","t","e","w","a","y">>, <<"S","t","r","i","p","e"," ","s","e","t","u","p">>, <<<<"t","e","s","t">>>>) }
        IN  /\ op = "findTasksByKeywords"
            /\ tasks \in SeqsUpTo(fetched, MaxTasks)
            /\ keywords \in SeqsUpTo({<<"s","t","r","i","p","e">>, <<"p","a","y","m","e","n","t">>, <<"P","R","O","F","I","L","E"," ","t","e","s","t">>}, MaxKeywords)
            /\ filePath = <<>> /\ content = <<>> /\ task = NoTask /\ changeType = "modify"
     \/ /\ op = "testConnection"
        /\ filePath = <<>> /\ content = <<>> /\ task = NoTask /\ tasks = <<>>
        /\ keywords = <<>> /\ changeType = "modify"
  /\ \* the answers to GET /projects: none (the connection is refused or times
     \* out), the list of projects, or an error status
     LET Answered(status, body) == [answered |-> TRUE, status |-> status, body |-> body]
         MockProject == [id |-> <<"t","e","s","t","-","p","r","o","j","e","c","t","-","1","2","3">>, name |-> <<"T","e","s","t"," ","P","r","o","j","e","c","t">>]
     IN  IF op = "testConnection"
         THEN answer \in
                { [answered |-> FALSE, code |-> "ECONNREFUSED"],
                  [answered |-> FALSE, code |-> "ETIMEDOUT"],
                  Answered(200, [data |-> <<MockProject>>]),
                  Answered(200, [data |-> <<>>]),
                  Answered(401, [error |-> <<"I","n","v","a","l","i","d"," ","A","P","I"," ","c","r","e","d","e","n","t","i","a","l","s">>]),
                  Answered(403, [error |-> <<"F","o","r","b","i","d","d","e","n">>]),
                  Answered(404, [error |-> <<"N","o","t"," ","f","o","u","n","d">>]),
                  Answered(500, [error |-> <<"I","n","t","e","r","n","a","l"," ","s","e","r","v","e","r"," ","e","r","r","o","r">>]) }
         ELSE answer = <<>>

Return(value) ==
  /\ pc' = "done"
  /\ result' = value
  /\ UNCHANGED <<op, filePath, content, task, tasks, keywords, changeType,
                 globalConfigFile, projectConfigFile, config, updates, processes, serverTasks,
                 answer, env, history>>

CallExtractKeywordsFromPath ==
  /\ pc = "call" /\ op = "extractKeywordsFromPath"
  /\ Return(ExtractKeywordsFromPath(filePath))

CallExtractKeywordsFromContent ==
  /\ pc = "call" /\ op = "extractKeywordsFromContent"
  /\ Return(ExtractKeywordsFromContent(content, filePath))

CallCalculateMatchScore ==
  /\ pc = "call" /\ op = "calculateMatchScore"
  /\ Return(CalculateMatchScore(task, keywords))

CallFindMatchingTasks ==
  /\ pc = "call" /\ op = "findMatchingTasks"
  /\ Return(FindMatchingTasks(tasks, keywords))

CallSuggestTaskStatus ==
  /\ pc = "call" /\ op = "suggestTaskStatus"
  /\ Return(SuggestTaskStatus(task, changeType))

\* getTasks has resolved to the fetched tasks
CallFindTasksByKeywords ==
  /\ pc = "call" /\ op = "findTasksByKeywords"
  /\ Return(FindTasksByKeywords(tasks, keywords))

\* the caller performs the suggested transition and the task is changed
\* again: suggestTaskStatus is called on the task with the suggested status
\* and another change type; the calls made so far are kept in history
RepeatSuggestTaskStatus ==
  /\ pc = "done" /\ op = "suggestTaskStatus"
  /\ Len(history) < MaxChanges
  /\ history' = Append(history, [status |-> task.status, changeType |-> changeType])
  /\ task' = [task EXCEPT !.status = result]
  /\ changeType' \in ChangeTypes
  /\ pc' = "call"
  /\ result' = Pending
  /\ UNCHANGED <<op, filePath, content, tasks, keywords, globalConfigFile, projectConfigFile,
                 config, updates, processes, serverTasks, answer, env>>

CallTestConnection ==
  /\ pc = "call" /\ op = "testConnection"
  /\ Return(TestConnection(answer))

Next ==
  \/ RepeatSuggestTaskStatus
  \/ CallFindTasksByKeywords
  \/ CallTestConnection
  \/ CallExtractKeywordsFromPath
  \/ CallExtractKeywordsFromContent
  \/ CallCalculateMatchScore
  \/ CallFindMatchingTasks
  \/ CallSuggestTaskStatus

Spec == Init /\ [][Next]_vars

(***************************************************************************)
(* Vocabulary of the properties                                            *)
(***************************************************************************)
Returned(operation) == pc = "done" /\ op = operation

\* the words of a text: its maximal runs of non-whitespace characters
WordStarts(s) ==
  {i \in 1..Len(s) : ~IsSpace(s[i]) /\ (i = 1 \/ IsSpace(s[i - 1]))}

WordAt(s, i) ==
  LET ends == {j \in i..Len(s) : j = Len(s) \/ IsSpace(s[j + 1])}
  IN  SubSeq(s, i, CHOOSE j \in ends : \A k \in ends : j <= k)

\* the text fields of a task that are present
TextFields(t) ==
  {t.title} \cup (IF t.description = Undefined THEN {} ELSE {t.description})
            \cup {t.tags[i] : i \in 1..Len(t.tags)}

\* word w of a task field and keyword k overlap: one contains the other (case ignored)
Overlaps(w, k) ==
  Includes(ToLowerCase(w), ToLowerCase(k)) \/ Includes(ToLowerCase(k), ToLowerCase(w))

NoOverlap(t, kws) ==
  \A n \in 1..Len(kws) : \A f \in TextFields(t) : \A i \in WordStarts(f) :
    ~Overlaps(WordAt(f, i), kws[n])

\* number of words of the text 'title description tags' that partially match k
MatchingWords(t, k) ==
  LET text == t.title \o <<" ">>
              \o (IF t.description = Undefined THEN <<>> ELSE t.description)
              \o <<" ">> \o Join(t.tags, <<" ">>)
  IN  Cardinality({i \in WordStarts(text) : Overlaps(WordAt(text, i), k)})

TitleContains(t, k) == Includes(ToLowerCase(t.title), ToLowerCase(k))

DescriptionContains(t, k) ==
  t.description # Undefined /\ Includes(ToLowerCase(t.description), ToLowerCase(k))

SomeTagContains(t, k) ==
  \E i \in 1..Len(t.tags) : Includes(ToLowerCase(t.tags[i]), ToLowerCase(k))

\* the reference score of one keyword, and of a keyword list
ReferenceKeywordScore(t, k) ==
  (IF TitleContains(t, k) THEN 10 ELSE 0)
  + (IF DescriptionContains(t, k) THEN 5 ELSE 0)
  + (IF SomeTagContains(t, k) THEN 7 ELSE 0)
  + 2 * MatchingWords(t, k)

RECURSIVE SumOver(_, _)
SumOver(t, kws) ==
  IF kws = <<>> THEN 0 ELSE ReferenceKeywordScore(t, Head(kws)) + SumOver(t, Tail(kws))

ReferenceScore(t, kws) == SumOver(t, kws)

\* how often x occurs in the sequence s
Count(s, x) == Cardinality({i \in 1..Len(s) : s[i] = x})

(***************************************************************************)
(* C1: calculateMatchScore returns exactly 0 whenever no keyword overlaps  *)
(* any word of the task's title, description or tags, for every task shape *)
(* (description absent, tag list empty included).                          *)
(***************************************************************************)
C1_NoOverlapScoresZero ==
  (Returned("calculateMatchScore") /\ NoOverlap(task, keywords)) => result = 0

(***************************************************************************)
(* C2: findMatchingTasks returns exactly the input tasks whose             *)
(* calculateMatchScore is greater than 0, each as often as in the input.   *)
(***************************************************************************)
C2_ExactlyThePositiveScores ==
  Returned("findMatchingTasks") =>
    /\ \A i \in 1..Len(result) : \E j \in 1..Len(tasks) : result[i] = tasks[j]
    /\ \A j \in 1..Len(tasks) :
         Count(result, tasks[j]) =
           IF CalculateMatchScore(tasks[j], keywords) > 0 THEN Count(tasks, tasks[j]) ELSE 0

C2_Witness ==
  /\ Returned("findMatchingTasks")
  /\ \E j \in 1..Len(tasks) : CalculateMatchScore(tasks[j], keywords) = 0
  /\ \E j \in 1..Len(tasks) : Count(tasks, tasks[j]) = 2 /\ Count(result, tasks[j]) = 2

(***************************************************************************)
(* C3: the output of findMatchingTasks is ordered by non-increasing score, *)
(* and returned tasks of equal score keep their relative input order.      *)
(***************************************************************************)
C3_DescendingAndStable ==
  Returned("findMatchingTasks") =>
    \A scoreOf \in {[t \in {tasks[j] : j \in 1..Len(tasks)} \cup {result[j] : j \in 1..Len(result)}
                        |-> CalculateMatchScore(t, keywords)]} :
      /\ \A i \in 1..(Len(result) - 1) : scoreOf[result[i]] >= scoreOf[result[i + 1]]
      /\ \A i \in 1..Len(result) :
           LET SameScore(t) == scoreOf[t] = scoreOf[result[i]]
           IN  SelectSeq(result, SameScore) = SelectSeq(tasks, SameScore)

C3_Witness ==
  /\ Returned("findMatchingTasks")
  /\ Len(result) = 3
  /\ result[1].id = 1 /\ result[2].id = 4 /\ result[3].id = 2
  /\ tasks[1].id = 4 /\ tasks[2].id = 2 /\ tasks[3].id = 1
  /\ CalculateMatchScore(result[2], keywords) = CalculateMatchScore(result[3], keywords)

(***************************************************************************)
(* C4: calculateMatchScore equals the reference sum over the keywords of   *)
(* 10 (title contains k) + 5 (present description contains k) + 7 (some    *)
(* tag contains k) + 2 per whitespace-delimited word of the task text that *)
(* contains k or is contained in k.                                        *)
(***************************************************************************)
C4_EqualsReferenceSum ==
  Returned("calculateMatchScore") => result = ReferenceScore(task, keywords)

(***************************************************************************)
(* C5: for a single keyword k, a task whose title contains k scores        *)
(* strictly higher than every task in which k occurs only in the           *)
(* description.                                                            *)
(***************************************************************************)
DescriptionOnly(t, k) ==
  DescriptionContains(t, k) /\ ~TitleContains(t, k) /\ ~SomeTagContains(t, k)

C5_TitleAlwaysOutscoresDescription ==
  (Returned("calculateMatchScore") /\ Len(keywords) = 1 /\ TitleContains(task, keywords[1])) =>
    \A other \in ScoreTasks :
      DescriptionOnly(other, keywords[1]) => CalculateMatchScore(other, keywords) < result

\* C5 as amended: ... strictly higher than every task in which k occurs only
\* in the description and which has no more words partially matching k
C5_TitleOutscoresDescriptionOfNoMoreWords ==
  (Returned("calculateMatchScore") /\ Len(keywords) = 1 /\ TitleContains(task, keywords[1])) =>
    \A other \in ScoreTasks :
      (/\ DescriptionOnly(other, keywords[1])
       /\ MatchingWords(other, keywords[1]) <= MatchingWords(task, keywords[1]))
      => CalculateMatchScore(other, keywords) < result

C5_Witness ==
  /\ Returned("calculateMatchScore") /\ Len(keywords) = 1
  /\ TitleContains(task, keywords[1])
  /\ \E other \in ScoreTasks :
       /\ DescriptionOnly(other, keywords[1])
       /\ MatchingWords(other, keywords[1]) = MatchingWords(task, keywords[1])
       /\ CalculateMatchScore(other, keywords) < result

(***************************************************************************)
(* C6: suggestTaskStatus is total over the 3 statuses x 3 change types:    *)
(* in_progress for (todo, create|modify), the unchanged status otherwise.  *)
(***************************************************************************)
C6_SuggestionTable ==
  Returned("suggestTaskStatus") =>
    /\ result \in Statuses
    /\ (task.status = "todo" /\ changeType \in {"create", "modify"}) => result = "in_progress"
    /\ (task.status # "todo" /\ changeType \in {"create", "modify"}) => result = task.status
    /\ changeType = "delete" => result = task.status

C6_Witness ==
  Returned("suggestTaskStatus") /\ task.status = "done" /\ changeType = "modify"
  /\ result = "done"

(***************************************************************************)
(* C10: findMatchingTasks returns the empty sequence when the task list or *)
(* the keyword list is empty, and calculateMatchScore returns 0 for an     *)
(* empty keyword list.                                                     *)
(***************************************************************************)
C10_EmptyInputsGiveEmptyResults ==
  /\ (Returned("findMatchingTasks") /\ (tasks = <<>> \/ keywords = <<>>)) => result = <<>>
  /\ (Returned("calculateMatchScore") /\ keywords = <<>>) => result = 0

C10_Witness ==
  Returned("findMatchingTasks") /\ keywords = <<>> /\ Len(tasks) = MaxTasks /\ result = <<>>

(***************************************************************************)
(* Reference description of the keyword pipeline, used by C7, C8 and C9    *)
(***************************************************************************)
\* the elements of a finite set of numbers in increasing order
Ascending(S) ==
  [n \in 1..Cardinality(S) |-> CHOOSE i \in S : Cardinality({j \in S : j < i}) = n - 1]

\* the maximal runs of characters of s outside the set seps, in order
RunsOutside(s, seps) ==
  LET starts == Ascending({i \in 1..Len(s) : s[i] \notin seps /\ (i = 1 \/ s[i - 1] \in seps)})
      EndOf(i) == CHOOSE j \in i..Len(s) :
                    /\ \A k \in i..j : s[k] \notin seps
                    /\ (j = Len(s) \/ s[j + 1] \in seps)
  IN  [n \in 1..Len(starts) |-> SubSeq(s, starts[n], EndOf(starts[n]))]

\* the components of a path
Components(p) == RunsOutside(p, {"/"})

\* the file name: the last component
FileNameOf(p) == IF Components(p) = <<>> THEN <<>> ELSE Components(p)[Len(Components(p))]

\* the directory components other than '.'
DirectoriesOf(p) ==
  LET NotDot(c) == c # <<".">>
  IN  IF Components(p) = <<>> THEN <<>>
      ELSE SelectSeq(SubSeq(Components(p), 1, Len(Components(p)) - 1), NotDot)

\* the file name without its extension: the last '.' and what follows it are
\* removed when something follows it
ExtensionStripped(name) ==
  LET dots == {i \in 1..Len(name) : name[i] = "."}
  IN  IF dots = {} THEN name
      ELSE LET d == CHOOSE i \in dots : \A j \in dots : j <= i
           IN  IF d = Len(name) THEN name ELSE SubSeq(name, 1, d - 1)

\* the pieces of name cut before every upper-case letter not at position 0
PiecesAtUpperCase(name) ==
  LET starts == Ascending({i \in 1..Len(name) : i = 1 \/ IsUpper(name[i])})
      EndOf(n) == IF n = Len(starts) THEN Len(name) ELSE starts[n + 1] - 1
  IN  [n \in 1..Len(starts) |-> SubSeq(name, starts[n], EndOf(n))]

\* the pieces of name between '-' and '_'
PiecesAtDashes(name) == RunsOutside(name, {"-", "_"})

CandidateSequence(p) ==
  LET name == ExtensionStripped(FileNameOf(p))
  IN  <<name>> \o PiecesAtUpperCase(name) \o PiecesAtDashes(name) \o DirectoriesOf(p)

RECURSIVE DropLeadingSpace(_)
DropLeadingSpace(s) ==
  IF s # <<>> /\ IsSpace(Head(s)) THEN DropLeadingSpace(Tail(s)) ELSE s

RECURSIVE DropTrailingSpace(_)
DropTrailingSpace(s) ==
  IF s # <<>> /\ IsSpace(s[Len(s)]) THEN DropTrailingSpace(SubSeq(s, 1, Len(s) - 1)) ELSE s

Normalized(candidates) ==
  [i \in 1..Len(candidates) |-> DropTrailingSpace(DropLeadingSpace(ToLowerCase(candidates[i])))]

IsKeyword(k) == Len(k) > 2 /\ k \notin CommonWords

RECURSIVE FirstOccurrences(_)
FirstOccurrences(s) ==
  IF s = <<>> THEN <<>>
  ELSE LET front == FirstOccurrences(SubSeq(s, 1, Len(s) - 1))
       IN  IF \E i \in 1..Len(front) : front[i] = s[Len(s)] THEN front
           ELSE Append(front, s[Len(s)])

NormalizeFilterDedupe(candidates) ==
  FirstOccurrences(SelectSeq(Normalized(candidates), IsKeyword))

Range(s) == {s[i] : i \in 1..Len(s)}

\* position of the first occurrence of x in s
FirstPosition(s, x) == CHOOSE i \in 1..Len(s) : s[i] = x /\ \A j \in 1..(i - 1) : s[j] # x

\* the candidates the called extractor collected, before the clean-up
CandidatesOfCall ==
  IF op = "extractKeywordsFromPath" THEN PathCandidates(filePath)
  ELSE ContentCandidates(content, filePath)

ReturnedKeywords ==
  Returned("extractKeywordsFromPath") \/ Returned("extractKeywordsFromContent")

(***************************************************************************)
(* C7: every keyword returned by extractKeywordsFromPath and by            *)
(* extractKeywordsFromContent is non-empty, lower case, has no leading or  *)
(* trailing whitespace, is longer than 2 and is no stop word.              *)
(***************************************************************************)
C7_KeywordsWellFormed ==
  ReturnedKeywords =>
    \A i \in 1..Len(result) :
      LET k == result[i]
      IN  /\ k # <<>>
          /\ \A j \in 1..Len(k) : ~IsUpper(k[j])
          /\ ~IsSpace(k[1]) /\ ~IsSpace(k[Len(k)])
          /\ Len(k) > 2
          /\ k \notin CommonWords

C7_Witness ==
  /\ Returned("extractKeywordsFromPath")
  /\ filePath = <<" ","M","y"," ","F","i","l","e"," ",".","t","x","t">>
  /\ result = <<<<"m","y"," ","f","i","l","e">>, <<"f","i","l","e">>>>

(***************************************************************************)
(* C8: the returned keyword list contains no element twice and keeps the   *)
(* surviving elements in the order of their first occurrence among the     *)
(* normalized candidates.                                                  *)
(***************************************************************************)
C8_NoDuplicatesFirstSeenOrder ==
  ReturnedKeywords =>
    LET normalized == Normalized(CandidatesOfCall)
    IN  /\ \A i, j \in 1..Len(result) : i # j => result[i] # result[j]
        /\ Range(result) = {k \in Range(normalized) : IsKeyword(k)}
        /\ \A i, j \in 1..Len(result) :
             i < j => FirstPosition(normalized, result[i]) < FirstPosition(normalized, result[j])

C8_Witness ==
  /\ Returned("extractKeywordsFromContent")
  /\ content = MarkdownSample /\ filePath = <<"R","E","A","D","M","E",".","m","d">>
  /\ Len(result) = 5
  /\ result[2] = <<"s","t","r","i","p","e"," ","s","e","t","u","p">>
  /\ Count(Normalized(CandidatesOfCall), <<"s","t","r","i","p","e"," ","s","e","t","u","p">>) = 2

WithoutLast(s) == SubSeq(s, 1, Len(s) - 1)

Last(s) == s[Len(s)]

C11_AppendingKeywordNeverDecreases ==
  (Returned("calculateMatchScore") /\ keywords # <<>>) =>
    LET before == CalculateMatchScore(task, WithoutLast(keywords))
    IN  /\ result >= before
        /\ Includes(task.title, Last(keywords)) => result > before

\* 'api' appended to ['stripe'] for the task titled 'Pay api'
C11_Witness ==
  /\ Returned("calculateMatchScore")
  /\ Len(keywords) = 2
  /\ Includes(task.title, Last(keywords))
  /\ CalculateMatchScore(task, WithoutLast(keywords)) > 0
  /\ result > CalculateMatchScore(task, WithoutLast(keywords))

(***************************************************************************)
(* C12: extractKeywordsFromContent never raises, for any content and any   *)
(* path: it dispatches on the lower-cased extension (.js/.ts/.jsx/.tsx,    *)
(* .php, .py, .md) to the matching extractor, uses the generic extractor   *)
(* for every other or missing extension, and returns the empty list when   *)
(* the chosen extractor finds no match (the empty content included).       *)
(***************************************************************************)
\* the file name of p is something followed by the extension e, case ignored
HasExtension(p, e) ==
  LET name == FileNameOf(p)
  IN  /\ Len(name) > Len(e)
      /\ ToLowerCase(SubSeq(name, Len(name) - Len(e) + 1, Len(name))) = e

ScriptExtensions ==
  {<<".","j","s">>, <<".","t","s">>, <<".","j","s","x">>, <<".","t","s","x">>}

\* the candidates of the extractor the claim assigns to the path
CandidatesOfExtractorFor(text, p) ==
  IF \E e \in ScriptExtensions : HasExtension(p, e) THEN ExtractJSKeywords(text)
  ELSE IF HasExtension(p, <<".","p","h","p">>) THEN ExtractPHPKeywords(text)
  ELSE IF HasExtension(p, <<".","p","y">>) THEN ExtractPythonKeywords(text)
  ELSE IF HasExtension(p, <<".","m","d">>) THEN ExtractMarkdownKeywords(text)
  ELSE ExtractGenericKeywords(text)

C12_ContentExtractionNeverRaises ==
  Returned("extractKeywordsFromContent") =>
    LET candidates == CandidatesOfExtractorFor(content, filePath)
    IN  /\ result # TypeError
        /\ result = NormalizeFilterDedupe(candidates)
        /\ candidates = <<>> => result = <<>>

\* the upper-case extension of 'Test.TS' selects the JavaScript extractor, and
\* the degenerate content gives the generic extractor nothing to return
C12_Witness ==
  /\ Returned("extractKeywordsFromContent")
  /\ \/ /\ filePath = <<"T","e","s","t",".","T","S">>
        /\ content = JavaScriptSample
        /\ result # <<>> /\ result # TypeError
        /\ result # CleanKeywords(ExtractGenericKeywords(content))
     \/ /\ filePath = <<"M","a","k","e","f","i","l","e">>
        /\ content = DegenerateSample
        /\ result = <<>>

(***************************************************************************)
(* C13: extractKeywordsFromPath returns the empty list for the empty path, *)
(* and for a file name without any '.' (and without directories) whose     *)
(* lower-cased form is longer than 2 characters and not a stop word, the   *)
(* result contains that lower-cased file name.                             *)
(***************************************************************************)
PlainFileName(p) == \A i \in 1..Len(p) : p[i] \notin {".", "/"}

C13_PlainFileNameIsKeyword ==
  Returned("extractKeywordsFromPath") =>
    /\ filePath = <<>> => result = <<>>
    /\ (PlainFileName(filePath) /\ IsKeyword(ToLowerCase(filePath))) =>
         ToLowerCase(filePath) \in Range(result)

(***************************************************************************)
(* C13 as amended: extractKeywordsFromPath returns the empty list for the  *)
(* empty path, and for a file name without any '.' (and without            *)
(* directories) whose lower-cased and trimmed form is longer than 2        *)
(* characters and not a stop word, the result contains that lower-cased    *)
(* and trimmed file name.                                                  *)
(***************************************************************************)
LowerCasedAndTrimmed(s) == DropTrailingSpace(DropLeadingSpace(ToLowerCase(s)))

C13_TrimmedPlainFileNameIsKeyword ==
  Returned("extractKeywordsFromPath") =>
    /\ filePath = <<>> => result = <<>>
    /\ (PlainFileName(filePath) /\ IsKeyword(LowerCasedAndTrimmed(filePath))) =>
         LowerCasedAndTrimmed(filePath) \in Range(result)

\* 'Dockerfile ' yields 'dockerfile', without the blank
C13_Witness ==
  /\ Returned("extractKeywordsFromPath")
  /\ filePath = <<"D","o","c","k","e","r","f","i","l","e"," ">>
  /\ result = <<<<"d","o","c","k","e","r","f","i","l","e">>>>

(***************************************************************************)
(* C15: matching is case-insensitive: calculateMatchScore, and hence the   *)
(* result of findMatchingTasks, is unchanged when the letter case of any   *)
(* keyword, or of the task's title, description or tags, is changed.       *)
(***************************************************************************)
ToUpperChar(c) ==
  IF IsLowerLetter(c) THEN UpperLetters[CHOOSE i \in 1..26 : LowerLetters[i] = c] ELSE c

\* a change of letter case: all upper, all lower, or every letter swapped
ChangeCase(how, s) ==
  [i \in 1..Len(s) |->
     CASE how = "upper" -> ToUpperChar(s[i])
       [] how = "lower" -> ToLowerChar(s[i])
       [] how = "swap" -> IF IsUpper(s[i]) THEN ToLowerChar(s[i]) ELSE ToUpperChar(s[i])
       [] OTHER -> s[i]]

ChangeCaseOfEach(how, list) == [i \in 1..Len(list) |-> ChangeCase(how, list[i])]

\* the task with the case of the named fields changed
ChangeCaseOfTask(how, fields, t) ==
  [t EXCEPT !.title = IF "title" \in fields THEN ChangeCase(how, @) ELSE @,
            !.description = IF "description" \in fields /\ @ # Undefined
                            THEN ChangeCase(how, @) ELSE @,
            !.tags = IF "tags" \in fields THEN ChangeCaseOfEach(how, @) ELSE @]

AllFields == {"title", "description", "tags", "keywords"}

\* the case of one field swapped, and of all fields raised
CaseChanges ==
  {<<"swap", {field}>> : field \in AllFields} \cup {<<"upper", AllFields>>}

Ids(taskList) == [i \in 1..Len(taskList) |-> taskList[i].id]

C15_MatchingIgnoresCase ==
  /\ Returned("calculateMatchScore") =>
       \A c \in CaseChanges :
         CalculateMatchScore(
           ChangeCaseOfTask(c[1], c[2], task),
           IF "keywords" \in c[2] THEN ChangeCaseOfEach(c[1], keywords) ELSE keywords) = result
  /\ Returned("findMatchingTasks") =>
       \A c \in {<<"swap", AllFields>>, <<"swap", {"keywords"}>>} :
         Ids(FindMatchingTasks(
           [i \in 1..Len(tasks) |-> ChangeCaseOfTask(c[1], c[2], tasks[i])],
           IF "keywords" \in c[2] THEN ChangeCaseOfEach(c[1], keywords) ELSE keywords))
         = Ids(result)

\* the keyword 'stripe' scores on the title 'Stripe', which does not contain it
\* as written
C15_Witness ==
  /\ Returned("calculateMatchScore")
  /\ keywords = <<<<"s","t","r","i","p","e">>>>
  /\ task.title = <<"S","t","r","i","p","e">>
  /\ ~Includes(task.title, keywords[1])
  /\ result >= 10

(***************************************************************************)
(* ConfigManager (lib/config.ts)                                           *)
(***************************************************************************)
\* null: what getGlobalConfig and getProjectConfig return without a readable file
Null == [null |-> TRUE]

\* object?.key
Field(object, key) ==
  IF object = Null THEN Undefined
  ELSE IF key \in DOMAIN object THEN object[key] ELSE Undefined

\* { ...a, ...b }
Spread(a, b) ==
  [key \in DOMAIN a \cup DOMAIN b |-> IF key \in DOMAIN b THEN b[key] ELSE a[key]]

\* fs.writeJson: JSON.stringify leaves out the properties whose value is undefined
WriteJson(object) ==
  [kind |-> "json",
   data |-> [key \in {k \in DOMAIN object : object[k] # Undefined} |-> object[key]]]

\* fs.pathExists, then fs.readJson, whose failure is caught
GetGlobalConfig ==
  IF globalConfigFile.kind = "json" THEN globalConfigFile.data ELSE Null

GetProjectConfig ==
  IF projectConfigFile.kind = "json" THEN projectConfigFile.data ELSE Null

NewGlobalConfigFromDefaults(currentConfig, changes) ==
  Spread([apiKey |-> <<>>, apiSecret |-> <<>>, baseUrl |-> <<"h","t","t","p","s",":","/","/","2","0","0","n","o","t","e","s",".","c","o","m">>], changes)

\* updateGlobalConfig: newConfig
NewGlobalConfig(currentConfig, changes) ==
  Spread(IF currentConfig # Null THEN currentConfig
         ELSE [apiKey |-> <<>>, apiSecret |-> <<>>, baseUrl |-> <<"h","t","t","p","s",":","/","/","2","0","0","n","o","t","e","s",".","c","o","m">>],
         changes)

HasValidGlobalConfigKeyOnly == Truthy(Field(GetGlobalConfig, "apiKey"))

HasValidGlobalConfig ==
  Truthy(Field(GetGlobalConfig, "apiKey")) /\ Truthy(Field(GetGlobalConfig, "apiSecret"))

HasProjectConfig == Truthy(Field(GetProjectConfig, "projectId"))

NoProjectConfigurationFound ==
  <<"N","o"," ","p","r","o","j","e","c","t"," ","c","o","n","f","i","g","u","r","a","t","i","o","n"," ","f","o","u","n","d","."," ","R","u","n"," ","\"","2","0","0","n","o","t","e","s"," ","i","n","i","t","\""," ","f","i","r","s","t",".">>

UpdateProjectConfigCreating(currentConfig, changes) ==
  [outcome |-> [threw |-> FALSE, value |-> Undefined],
   file |-> WriteJson(Spread(IF currentConfig # Null THEN currentConfig ELSE <<>>, changes))]

\* updateProjectConfig: the outcome of the call (the value returned or the
\* message of the error thrown) and the file it leaves
UpdateProjectConfig(currentConfig, changes) ==
  IF currentConfig = Null
    THEN [outcome |-> [threw |-> TRUE, value |-> NoProjectConfigurationFound],
          file |-> projectConfigFile]
    ELSE [outcome |-> [threw |-> FALSE, value |-> Undefined],
          file |-> WriteJson(Spread(currentConfig, changes))]

GetApiConfig ==
  IF GetGlobalConfig = Null THEN Null
  ELSE Spread(GetGlobalConfig, [projectId |-> Field(GetProjectConfig, "projectId")])

TEST_API_KEY == <<"t","e","s","t","_","k","e","y","_","1","2","3","4","5">>

TEST_API_SECRET == <<"t","e","s","t","_","s","e","c","r","e","t","_","6","7","8","9","0">>

TEST_PROJECT_ID == <<"t","e","s","t","-","p","r","o","j","e","c","t","-","1","2","3">>

(***************************************************************************)
(* Calls of the configuration manager, in any order, with the              *)
(* configurations and updates of its tests, an update that empties a field *)
(* and one that sets a field to undefined.  The files start missing or     *)
(* unparsable.                                                             *)
(***************************************************************************)
ConfigInit ==
  /\ op = "none" /\ pc = "call" /\ result = Pending
  /\ filePath = <<>> /\ content = <<>> /\ task = NoTask /\ tasks = <<>>
  /\ keywords = <<>> /\ changeType = "modify"
  /\ processes = <<>> /\ serverTasks = <<>>
  /\ answer = <<>> /\ env = <<>> /\ history = <<>>
  /\ globalConfigFile \in {MissingFile, [kind |-> "corrupt", data |-> <<>>]}
  /\ projectConfigFile \in {MissingFile, [kind |-> "corrupt", data |-> <<>>]}
  /\ config = <<>> /\ updates = <<>>

\* the call returns value, or throws the error with message value
ConfigReturn(operation, threw, value) ==
  /\ op' = operation
  /\ pc' = "done"
  /\ result' = [threw |-> threw, value |-> value]
  /\ UNCHANGED <<filePath, content, task, tasks, keywords, changeType, processes, serverTasks,
                 answer, env, history>>

CallSetGlobalConfig ==
  \E c \in { [apiKey |-> TEST_API_KEY, apiSecret |-> TEST_API_SECRET,
              baseUrl |-> <<"h","t","t","p",":","/","/","l","o","c","a","l","h","o","s","t",":","3","0","0","0">>],
             [apiKey |-> <<"o","l","d","_","k","e","y">>, apiSecret |-> <<"o","l","d","_","s","e","c","r","e","t">>,
              baseUrl |-> <<"h","t","t","p",":","/","/","o","l","d","-","u","r","l",".","c","o","m">>],
             [apiKey |-> TEST_API_KEY, baseUrl |-> <<"h","t","t","p",":","/","/","l","o","c","a","l","h","o","s","t",":","3","0","0","0">>] } :
    /\ config' = c
    /\ globalConfigFile' = WriteJson(c)
    /\ ConfigReturn("setGlobalConfig", FALSE, Undefined)
    /\ UNCHANGED <<projectConfigFile, updates>>

CallUpdateGlobalConfig ==
  \E u \in { [apiKey |-> <<"n","e","w","_","k","e","y">>, baseUrl |-> <<"h","t","t","p",":","/","/","n","e","w","-","u","r","l",".","c","o","m">>],
             [apiKey |-> TEST_API_KEY, apiSecret |-> TEST_API_SECRET],
             [apiSecret |-> <<>>],
             [apiKey |-> Undefined],
             <<>> } :
    /\ updates' = u
    /\ globalConfigFile' = WriteJson(NewGlobalConfig(GetGlobalConfig, u))
    /\ ConfigReturn("updateGlobalConfig", FALSE, Undefined)
    /\ UNCHANGED <<projectConfigFile, config>>

CallRemoveGlobalConfig ==
  /\ globalConfigFile' = IF globalConfigFile.kind # "missing" THEN MissingFile
                         ELSE globalConfigFile
  /\ ConfigReturn("removeGlobalConfig", FALSE, Undefined)
  /\ UNCHANGED <<projectConfigFile, config, updates>>

CallHasValidGlobalConfig ==
  /\ ConfigReturn("hasValidGlobalConfig", FALSE, HasValidGlobalConfig)
  /\ UNCHANGED <<globalConfigFile, projectConfigFile, config, updates>>

CallSetProjectConfig ==
  \E c \in { [projectId |-> TEST_PROJECT_ID, name |-> <<"T","e","s","t"," ","P","r","o","j","e","c","t">>,
              lastSync |-> <<"2","0","2","3","-","0","1","-","0","1">>],
             [projectId |-> TEST_PROJECT_ID, name |-> <<"I","n","i","t","i","a","l"," ","P","r","o","j","e","c","t">>],
             [projectId |-> <<>>, name |-> <<"T","e","s","t"," ","P","r","o","j","e","c","t">>] } :
    /\ config' = c
    /\ projectConfigFile' = WriteJson(c)
    /\ ConfigReturn("setProjectConfig", FALSE, Undefined)
    /\ UNCHANGED <<globalConfigFile, updates>>

CallUpdateProjectConfig ==
  \E u \in { [name |-> <<"U","p","d","a","t","e","d"," ","P","r","o","j","e","c","t">>, lastSync |-> <<"2","0","2","4","-","0","1","-","0","1">>],
             [name |-> <<"N","e","w"," ","N","a","m","e">>],
             [projectId |-> <<>>],
             [projectId |-> Undefined] } :
    /\ updates' = u
    /\ projectConfigFile' = UpdateProjectConfig(GetProjectConfig, u).file
    /\ ConfigReturn("updateProjectConfig",
                    UpdateProjectConfig(GetProjectConfig, u).outcome.threw,
                    UpdateProjectConfig(GetProjectConfig, u).outcome.value)
    /\ UNCHANGED <<globalConfigFile, config>>

CallRemoveProjectConfig ==
  /\ projectConfigFile' = IF projectConfigFile.kind # "missing" THEN MissingFile
                          ELSE projectConfigFile
  /\ ConfigReturn("removeProjectConfig", FALSE, Undefined)
  /\ UNCHANGED <<globalConfigFile, config, updates>>

CallHasProjectConfig ==
  /\ ConfigReturn("hasProjectConfig", FALSE, HasProjectConfig)
  /\ UNCHANGED <<globalConfigFile, projectConfigFile, config, updates>>

ConfigNext ==
  \/ CallSetGlobalConfig
  \/ CallUpdateGlobalConfig
  \/ CallRemoveGlobalConfig
  \/ CallHasValidGlobalConfig
  \/ CallSetProjectConfig
  \/ CallUpdateProjectConfig
  \/ CallRemoveProjectConfig
  \/ CallHasProjectConfig

ConfigSpec == ConfigInit /\ [][ConfigNext]_vars

(***************************************************************************)
(* Properties of the configuration manager                                 *)
(***************************************************************************)
\* the file holds a configuration whose field key is a non-empty string
StoredNonEmpty(file, key) ==
  /\ file.kind = "json"
  /\ key \in DOMAIN file.data
  /\ file.data[key] # <<>>

\* C18: after any sequence of setGlobalConfig, updateGlobalConfig and
\* removeGlobalConfig calls, hasValidGlobalConfig returns true exactly when a
\* stored global config exists with non-empty apiKey and non-empty apiSecret;
\* after any sequence of setProjectConfig, updateProjectConfig and
\* removeProjectConfig calls, hasProjectConfig returns true exactly when a
\* stored project config with a non-empty projectId exists.
C18_ValidityFollowsTheStoredConfig ==
  /\ Returned("hasValidGlobalConfig") =>
       (result.value <=> /\ StoredNonEmpty(globalConfigFile, "apiKey")
                         /\ StoredNonEmpty(globalConfigFile, "apiSecret"))
  /\ Returned("hasProjectConfig") =>
       (result.value <=> StoredNonEmpty(projectConfigFile, "projectId"))

\* hasValidGlobalConfig answers true for a configuration that a set and an
\* update built together
C18_Witness ==
  /\ Returned("hasValidGlobalConfig")
  /\ result.value
  /\ globalConfigFile.data = [apiKey |-> <<"n","e","w","_","k","e","y">>, apiSecret |-> <<"o","l","d","_","s","e","c","r","e","t">>,
                              baseUrl |-> <<"h","t","t","p",":","/","/","n","e","w","-","u","r","l",".","c","o","m">>]

\* the value object?.key of a stored configuration: Undefined for an absent key
Stored(file, key) ==
  IF file.kind = "json" /\ key \in DOMAIN file.data THEN file.data[key] ELSE Undefined

\* C19: updateGlobalConfig(updates) stores the previous config with only the
\* fields named in updates replaced and all other fields unchanged; when no
\* global config exists (or it cannot be read) it stores the defaults apiKey '',
\* apiSecret '', baseUrl 'https://200notes.com' overridden by updates.
C19_UpdateGlobalConfigReplacesOnlyNamedFields ==
  [][ op' = "updateGlobalConfig" =>
        LET previous == IF globalConfigFile.kind = "json" THEN globalConfigFile
                        ELSE [kind |-> "json", data |-> [apiKey |-> <<>>, apiSecret |-> <<>>,
                                       baseUrl |-> <<"h","t","t","p","s",":","/","/","2","0","0","n","o","t","e","s",".","c","o","m">>]]
        IN  /\ globalConfigFile'.kind = "json"
            /\ \A key \in DOMAIN previous.data \cup DOMAIN updates'
                          \cup DOMAIN globalConfigFile'.data :
                 Stored(globalConfigFile', key) =
                   IF key \in DOMAIN updates' THEN updates'[key] ELSE Stored(previous, key)
    ]_vars

\* an update of two fields of a stored configuration kept the third
C19_Witness ==
  /\ Returned("updateGlobalConfig")
  /\ updates = [apiKey |-> <<"n","e","w","_","k","e","y">>, baseUrl |-> <<"h","t","t","p",":","/","/","n","e","w","-","u","r","l",".","c","o","m">>]
  /\ globalConfigFile.data = [apiKey |-> <<"n","e","w","_","k","e","y">>, apiSecret |-> <<"o","l","d","_","s","e","c","r","e","t">>,
                              baseUrl |-> <<"h","t","t","p",":","/","/","n","e","w","-","u","r","l",".","c","o","m">>]

\* C20: updateProjectConfig fails with 'No project configuration found' when no
\* project config exists (or it cannot be read), and in that case writes
\* nothing: no project config file is created and the global config is
\* unchanged.
C20_UpdateProjectConfigFailsWithoutWriting ==
  [][ (op' = "updateProjectConfig" /\ projectConfigFile.kind # "json") =>
        /\ result'.threw
        /\ Includes(result'.value, <<"N","o"," ","p","r","o","j","e","c","t"," ","c","o","n","f","i","g","u","r","a","t","i","o","n"," ","f","o","u","n","d">>)
        /\ projectConfigFile' = projectConfigFile
        /\ globalConfigFile' = globalConfigFile
    ]_vars

\* updateProjectConfig failed where a global config is stored and no project
\* config is
C20_Witness ==
  /\ Returned("updateProjectConfig")
  /\ result.threw
  /\ projectConfigFile = MissingFile
  /\ globalConfigFile.kind = "json"

(***************************************************************************)
(* The command line (commands/status.ts, commands/task.ts), its API client *)
(* (lib/api.ts) and the mock server of the tests.  Each command runs in a  *)
(* process of its own; a process runs its handler up to the request it     *)
(* awaits, the server answers the pending requests one at a time in any    *)
(* order, and the process finishes on the response.  Of a process the      *)
(* state holds the command line, the position, the request sent, the       *)
(* response received, the number of requests sent, the exit code and the   *)
(* lines written to stderr.  Standard output and the created_at and        *)
(* updated_at stamps of a task are not part of the state.                  *)
(***************************************************************************)
MaxCommands == 3

\* parseInt of a string of decimal digits
RECURSIVE ParseInt(_)
ParseInt(s) ==
  IF s = <<>> THEN 0
  ELSE 10 * ParseInt(SubSeq(s, 1, Len(s) - 1))
       + (CHOOSE n \in 0..9 : <<"0","1","2","3","4","5","6","7","8","9">>[n + 1] = s[Len(s)])

NoConfigurationFound == <<"N","o"," ","c","o","n","f","i","g","u","r","a","t","i","o","n"," ","f","o","u","n","d","."," ","R","u","n"," ","\"","2","0","0","n","o","t","e","s"," ","i","n","i","t","\""," ","f","i","r","s","t",".">>

\* task.ts getApiClientAndProject: the configuration the client is built from
\* and the project configuration, or the error thrown
GetApiClientAndProject ==
  IF GetApiConfig = Null THEN [threw |-> TRUE, value |-> NoConfigurationFound]
  ELSE IF GetProjectConfig = Null THEN [threw |-> TRUE, value |-> NoProjectConfigurationFound]
  ELSE [threw |-> FALSE,
        value |-> [apiClient |-> GetApiConfig, projectConfig |-> GetProjectConfig]]

\* task.ts updateTask: the updates built from the options given
BuildUpdates(options) ==
  LET given == DOMAIN options
      fields == {k \in {"title", "priority", "status"} : k \in given /\ Truthy(options[k])}
                \cup ({"description", "tags"} \cap given)
                \cup (IF "due" \in given THEN {"due_date"} ELSE {})
  IN  [k \in fields |->
         CASE k = "tags" ->
                IF options.tags # <<>>
                THEN FilterBoolean(MapSeq(Split(options.tags, "comma"), Trim))
                ELSE <<>>
           [] k = "due_date" -> IF options.due # <<>> THEN options.due ELSE <<"null">>
           [] OTHER -> options[k]]

\* lib/api.ts: a request of the client built from the configuration; the body
\* of a GET is its query
Request(apiConfig, method, route, id, body) ==
  LET Text(value) == IF value = Undefined THEN <<"u","n","d","e","f","i","n","e","d">> ELSE value
  IN  [method |-> method, route |-> route, id |-> id,
       body |-> WriteJson(body).data,
       authorization |-> <<"B","e","a","r","e","r"," ">> \o Text(Field(apiConfig, "apiKey")) \o <<":">>
                         \o Text(Field(apiConfig, "apiSecret"))]

\* lib/api.ts: the message of the error a response is turned into
ErrorMessage(response) ==
  CASE response.status = 401 ->
         <<"I","n","v","a","l","i","d"," ","A","P","I"," ","c","r","e","d","e","n","t","i","a","l","s","."," ","P","l","e","a","s","e"," ","c","h","e","c","k"," ","y","o","u","r"," ","A","P","I"," ","k","e","y"," ","a","n","d"," ","s","e","c","r","e","t",".">>
    [] response.status = 403 ->
         <<"A","c","c","e","s","s"," ","d","e","n","i","e","d","."," ","P","l","e","a","s","e"," ","c","h","e","c","k"," ","y","o","u","r"," ","s","u","b","s","c","r","i","p","t","i","o","n"," ","s","t","a","t","u","s",".">>
    [] response.status = 404 -> <<"R","e","q","u","e","s","t"," ","f","a","i","l","e","d"," ","w","i","t","h"," ","s","t","a","t","u","s"," ","c","o","d","e"," ","4","0","4">>
    [] response.status = 422 -> <<"R","e","q","u","e","s","t"," ","f","a","i","l","e","d"," ","w","i","t","h"," ","s","t","a","t","u","s"," ","c","o","d","e"," ","4","2","2">>
    [] OTHER -> <<"R","e","q","u","e","s","t"," ","f","a","i","l","e","d"," ","w","i","t","h"," ","s","t","a","t","u","s"," ","c","o","d","e"," ","5","0","0">>

(***************************************************************************)
(* MockNotesServer                                                         *)
(***************************************************************************)
\* setup.ts createMockTask
CreateMockTask(overrides) ==
  Spread([id |-> 1, title |-> <<"T","e","s","t"," ","T","a","s","k">>, description |-> <<"T","e","s","t"," ","t","a","s","k"," ","d","e","s","c","r","i","p","t","i","o","n">>,
          status |-> <<"t","o","d","o">>, priority |-> <<"m","e","d","i","u","m">>, tags |-> <<<<"t","e","s","t">>>>,
          project |-> TEST_PROJECT_ID],
         overrides)

\* seedData: the tasks the server starts with
SeedTasks ==
  <<CreateMockTask([id |-> 1, title |-> <<"I","m","p","l","e","m","e","n","t"," ","S","t","r","i","p","e"," ","w","e","b","h","o","o","k">>,
                    description |-> <<"H","a","n","d","l","e"," ","p","a","y","m","e","n","t"," ","c","o","n","f","i","r","m","a","t","i","o","n","s">>,
                    status |-> <<"t","o","d","o">>, priority |-> <<"h","i","g","h">>,
                    tags |-> <<<<"s","t","r","i","p","e">>, <<"w","e","b","h","o","o","k">>, <<"b","a","c","k","e","n","d">>>>]),
    CreateMockTask([id |-> 2, title |-> <<"P","D","F"," ","g","e","n","e","r","a","t","i","o","n"," ","s","e","r","v","i","c","e">>,
                    description |-> <<"G","e","n","e","r","a","t","e"," ","P","D","F","s"," ","f","o","r"," ","d","o","w","n","l","o","a","d">>,
                    status |-> <<"i","n","_","p","r","o","g","r","e","s","s">>, priority |-> <<"m","e","d","i","u","m">>,
                    tags |-> <<<<"p","d","f">>, <<"s","e","r","v","i","c","e">>, <<"b","a","c","k","e","n","d">>>>]),
    CreateMockTask([id |-> 3, title |-> <<"F","r","o","n","t","e","n","d"," ","l","o","a","d","i","n","g"," ","s","t","a","t","e","s">>,
                    description |-> <<"A","d","d"," ","l","o","a","d","i","n","g"," ","i","n","d","i","c","a","t","o","r","s">>,
                    status |-> <<"t","o","d","o">>, priority |-> <<"l","o","w">>,
                    tags |-> <<<<"f","r","o","n","t","e","n","d">>, <<"u","i">>, <<"u","x">>>>])>>

\* the auth middleware
Authorized(request) ==
  LET header == request.authorization
      pieces == Split(SubSeq(header, 8, Len(header)), "colon")
  IN  /\ Len(header) >= 7 /\ SubSeq(header, 1, 7) = <<"B","e","a","r","e","r"," ">>
      /\ pieces[1] = TEST_API_KEY
      /\ Len(pieces) >= 2
      /\ pieces[2] = TEST_API_SECRET

PutTaskReplacing(stored, body) == Spread(CreateMockTask([id |-> stored.id]), body)

\* PUT /api/v1/tasks/:taskId: Object.assign(task, req.body)
PutTask(stored, body) == Spread(stored, body)

(***************************************************************************)
(* The commands started: several 'task update' at once (the three of the   *)
(* end-to-end test and one that sets a field another one sets) on the      *)
(* server as 'task create "Concurrent task" --priority medium' left it, or *)
(* one command of any kind on the server as seeded.                        *)
(***************************************************************************)
CliInit ==
  LET Process(name, argument, options) ==
        [command |-> [name |-> name, argument |-> argument, options |-> options],
         pc |-> "start", request |-> [method |-> "none"], response |-> [status |-> 0],
         sent |-> 0, exitCode |-> -1, stderr |-> <<>>]
      Updates ==
        { Process("task update", <<"1">>, [priority |-> <<"h","i","g","h">>]),
          Process("task update", <<"1">>, [description |-> <<"U","p","d","a","t","e","d"," ","d","e","s","c","r","i","p","t","i","o","n">>]),
          Process("task update", <<"1">>, [tags |-> <<"t","e","s","t","i","n","g",",","c","o","n","c","u","r","r","e","n","t">>]),
          Process("task update", <<"1">>, [priority |-> <<"l","o","w">>]) }
      Others ==
        { Process("status", <<>>, <<>>),
          Process("status", <<>>, [filter |-> <<"t","o","d","o">>]),
          Process("task update", <<"1">>, <<>>),
          Process("task update", <<"9">>, [status |-> <<"d","o","n","e">>]),
          Process("task done", <<"1">>, <<>>),
          Process("task done", <<"9">>, <<>>) }
      TestGlobalConfig ==
        [apiKey |-> TEST_API_KEY, apiSecret |-> TEST_API_SECRET,
         baseUrl |-> <<"h","t","t","p",":","/","/","l","o","c","a","l","h","o","s","t",":","3","0","0","0">>]
      MockProjectConfig ==
        [projectId |-> TEST_PROJECT_ID, name |-> <<"T","e","s","t"," ","P","r","o","j","e","c","t">>, lastSync |-> <<"2","0","2","3","-","0","1","-","0","1">>]
  IN  /\ op = "none" /\ pc = "call" /\ result = Pending
      /\ filePath = <<>> /\ content = <<>> /\ task = NoTask /\ tasks = <<>>
      /\ keywords = <<>> /\ changeType = "modify"
      /\ config = <<>> /\ updates = <<>>
      /\ answer = <<>> /\ env = <<>> /\ history = <<>>
      /\ projectConfigFile \in {MissingFile, WriteJson(MockProjectConfig)}
      /\ \/ /\ globalConfigFile \in {MissingFile, WriteJson(TestGlobalConfig)}
            /\ \E n \in 2..MaxCommands : processes \in [1..n -> Updates]
            /\ serverTasks =
                 [SeedTasks EXCEPT ![1] =
                    CreateMockTask([id |-> 1, title |-> <<"C","o","n","c","u","r","r","e","n","t"," ","t","a","s","k">>,
                                    description |-> Undefined, status |-> <<"t","o","d","o">>,
                                    priority |-> <<"m","e","d","i","u","m">>, tags |-> <<>>])]
         \/ /\ globalConfigFile \in
                 {MissingFile, WriteJson(TestGlobalConfig),
                  WriteJson([TestGlobalConfig EXCEPT !.apiKey = <<"o","l","d","_","k","e","y">>])}
            /\ processes \in [1..1 -> Updates \cup Others]
            /\ serverTasks = SeedTasks

(***************************************************************************)
(* Steps of a process                                                      *)
(***************************************************************************)
\* the handler returns or the process exits
Exit(p, code, errors) ==
  /\ processes' = [processes EXCEPT ![p].pc = "exited", ![p].exitCode = code,
                                    ![p].stderr = @ \o errors]
  /\ UNCHANGED <<op, pc, result, filePath, content, task, tasks, keywords, changeType,
                 globalConfigFile, projectConfigFile, config, updates, serverTasks,
                 answer, env, history>>

\* the catch of a command's action: console.error(prefix, error.message) and
\* process.exit(1)
Fail(p, message) ==
  LET name == processes[p].command.name
      prefix == CASE name = "status" -> <<"E","r","r","o","r"," ","g","e","t","t","i","n","g"," ","s","t","a","t","u","s",":">>
                  [] name = "task update" -> <<"E","r","r","o","r"," ","u","p","d","a","t","i","n","g"," ","t","a","s","k",":">>
                  [] name = "task done" -> <<"E","r","r","o","r"," ","m","a","r","k","i","n","g"," ","t","a","s","k"," ","a","s"," ","d","o","n","e",":">>
  IN  Exit(p, 1, <<prefix \o <<" ">> \o message>>)

\* the client sends the request and the process awaits the response
Send(p, request) ==
  /\ processes' = [processes EXCEPT ![p].pc = "requested", ![p].request = request,
                                    ![p].sent = @ + 1]
  /\ UNCHANGED <<op, pc, result, filePath, content, task, tasks, keywords, changeType,
                 globalConfigFile, projectConfigFile, config, updates, serverTasks,
                 answer, env, history>>

\* status.ts showStatus up to apiClient.getTasks
RunStatus(p) ==
  /\ p \in DOMAIN processes
  /\ processes[p].pc = "start" /\ processes[p].command.name = "status"
  /\ LET options == processes[p].command.options
         filters == [k \in {f \in {"status", "priority"} :
                              LET o == IF f = "status" THEN "filter" ELSE f
                              IN  o \in DOMAIN options /\ Truthy(options[o])}
                       |-> IF k = "status" THEN options.filter ELSE options.priority]
     IN  IF GetApiConfig = Null THEN Exit(p, 0, <<NoConfigurationFound>>)
         ELSE IF GetProjectConfig = Null THEN Exit(p, 0, <<NoProjectConfigurationFound>>)
         ELSE Send(p, Request(GetApiConfig, "GET", "project tasks",
                              Field(GetProjectConfig, "projectId"), filters))

\* task.ts updateTask up to apiClient.updateTask
RunTaskUpdate(p) ==
  /\ p \in DOMAIN processes
  /\ processes[p].pc = "start" /\ processes[p].command.name = "task update"
  /\ LET found == GetApiClientAndProject
         built == BuildUpdates(processes[p].command.options)
     IN  IF found.threw THEN Fail(p, found.value)
         ELSE IF DOMAIN built = {} THEN Fail(p, <<"N","o"," ","u","p","d","a","t","e","s"," ","p","r","o","v","i","d","e","d">>)
         ELSE Send(p, Request(found.value.apiClient, "PUT", "task",
                              ParseInt(processes[p].command.argument), built))

\* task.ts markTaskDone with a task id, up to apiClient.updateTaskStatus
RunTaskDone(p) ==
  /\ p \in DOMAIN processes
  /\ processes[p].pc = "start" /\ processes[p].command.name = "task done"
  /\ LET found == GetApiClientAndProject
     IN  IF found.threw THEN Fail(p, found.value)
         ELSE Send(p, Request(found.value.apiClient, "PATCH", "task status",
                              ParseInt(processes[p].command.argument),
                              [status |-> <<"d","o","n","e">>]))

\* the rest of the handler, after the awaited response
Finish(p) ==
  /\ p \in DOMAIN processes
  /\ processes[p].pc = "responded"
  /\ IF processes[p].response.status \in 200..299
       THEN Exit(p, 0, <<>>)
       ELSE Fail(p, ErrorMessage(processes[p].response))

(***************************************************************************)
(* Steps of the server: one request handled at a time                      *)
(***************************************************************************)
\* res.status(status).json(data), and what the handler leaves of the tasks
Respond(p, status, data, stored) ==
  /\ processes' = [processes EXCEPT ![p].pc = "responded",
                                    ![p].response = [status |-> status, data |-> data]]
  /\ serverTasks' = stored
  /\ UNCHANGED <<op, pc, result, filePath, content, task, tasks, keywords, changeType,
                 globalConfigFile, projectConfigFile, config, updates,
                 answer, env, history>>

ServeUnauthorized(p) ==
  /\ p \in DOMAIN processes
  /\ processes[p].pc = "requested"
  /\ ~Authorized(processes[p].request)
  /\ Respond(p, 401, <<"I","n","v","a","l","i","d"," ","A","P","I"," ","c","r","e","d","e","n","t","i","a","l","s">>, serverTasks)

\* GET /api/v1/projects/:projectId/tasks; the tasks are listed in the order of
\* their insertion, which is the order of their ids
ServeGetTasks(p) ==
  /\ p \in DOMAIN processes
  /\ processes[p].pc = "requested" /\ processes[p].request.route = "project tasks"
  /\ processes[p].request.method = "GET"
  /\ Authorized(processes[p].request)
  /\ LET request == processes[p].request
         Selected(id) ==
           /\ id \in DOMAIN serverTasks
           /\ serverTasks[id].project = request.id
           /\ ("status" \in DOMAIN request.body =>
                 serverTasks[id].status = request.body.status)
           /\ ("priority" \in DOMAIN request.body =>
                 serverTasks[id].priority = request.body.priority)
         ids == SelectSeq([id \in 1..Len(SeedTasks) |-> id], Selected)
     IN  IF request.id # TEST_PROJECT_ID
           THEN Respond(p, 404, <<"P","r","o","j","e","c","t"," ","n","o","t"," ","f","o","u","n","d">>, serverTasks)
           ELSE Respond(p, 200, [i \in 1..Len(ids) |-> serverTasks[ids[i]]], serverTasks)

\* PUT /api/v1/tasks/:taskId
ServePutTask(p) ==
  /\ p \in DOMAIN processes
  /\ processes[p].pc = "requested" /\ processes[p].request.route = "task"
  /\ processes[p].request.method = "PUT"
  /\ Authorized(processes[p].request)
  /\ LET request == processes[p].request
     IN  IF request.id \notin DOMAIN serverTasks
           THEN Respond(p, 404, <<"T","a","s","k"," ","n","o","t"," ","f","o","u","n","d">>, serverTasks)
           ELSE Respond(p, 200, PutTask(serverTasks[request.id], request.body),
                        [serverTasks EXCEPT ![request.id] = PutTask(@, request.body)])

\* PATCH /api/v1/tasks/:taskId/status
ServePatchStatus(p) ==
  /\ p \in DOMAIN processes
  /\ processes[p].pc = "requested" /\ processes[p].request.route = "task status"
  /\ processes[p].request.method = "PATCH"
  /\ Authorized(processes[p].request)
  /\ LET request == processes[p].request
     IN  IF request.id \notin DOMAIN serverTasks
           THEN Respond(p, 404, <<"T","a","s","k"," ","n","o","t"," ","f","o","u","n","d">>, serverTasks)
         ELSE IF Field(request.body, "status") \notin {<<"t","o","d","o">>, <<"i","n","_","p","r","o","g","r","e","s","s">>, <<"d","o","n","e">>}
           THEN Respond(p, 422, <<"V","a","l","i","d","a","t","i","o","n"," ","f","a","i","l","e","d">>, serverTasks)
         ELSE Respond(p, 200,
                      [serverTasks[request.id] EXCEPT !["status"] = request.body.status],
                      [serverTasks EXCEPT ![request.id]["status"] = request.body.status])

CliNext ==
  \E p \in 1..MaxCommands :
    \/ RunStatus(p)
    \/ RunTaskUpdate(p)
    \/ RunTaskDone(p)
    \/ Finish(p)
    \/ ServeUnauthorized(p)
    \/ ServeGetTasks(p)
    \/ ServePutTask(p)
    \/ ServePatchStatus(p)

CliSpec == CliInit /\ [][CliNext]_vars

(***************************************************************************)
(* Properties of the command line                                          *)
(***************************************************************************)
IsUpdate(p) == processes[p].command.name = "task update"

\* the server has answered the update of process p with success
Applied(p) ==
  /\ IsUpdate(p)
  /\ processes[p].pc \in {"responded", "exited"}
  /\ processes[p].response.status = 200

\* the field of the task that an option of 'task update' sets
FieldOfOption(option) == IF option = "due" THEN "due_date" ELSE option

\* the commands are updates of one task, each setting fields no other sets
UpdatesOfDifferentFields ==
  /\ \A p \in DOMAIN processes : IsUpdate(p)
  /\ \A p, q \in DOMAIN processes :
       /\ processes[p].command.argument = processes[q].command.argument
       /\ p # q => DOMAIN processes[p].command.options
                   \cap DOMAIN processes[q].command.options = {}

\* C16: when several 'task update' commands for the same task run
\* concurrently, each setting a different field (priority, description, tags),
\* then in every interleaving of the requests the task on the server contains
\* every one of the updates that were answered (in particular priority ends as
\* 'high'); no update overwrites another's field.
C16_ConcurrentUpdatesAreAllKept ==
  UpdatesOfDifferentFields =>
    \A p \in DOMAIN processes :
      Applied(p) =>
        LET stored == serverTasks[ParseInt(processes[p].command.argument)]
            options == processes[p].command.options
        IN  /\ \A option \in DOMAIN options :
                 stored[FieldOfOption(option)] = processes[p].request.body[FieldOfOption(option)]
            /\ "priority" \in DOMAIN options => stored.priority = options.priority
            /\ "description" \in DOMAIN options => stored.description = options.description
            /\ "tags" \in DOMAIN options /\ options.tags = <<"t","e","s","t","i","n","g",",","c","o","n","c","u","r","r","e","n","t">> =>
                 stored.tags = <<<<"t","e","s","t","i","n","g">>, <<"c","o","n","c","u","r","r","e","n","t">>>>

\* the three updates of the test have all finished with success, and the task
\* created with priority 'medium' holds all three
C16_Witness ==
  /\ DOMAIN processes = 1..3
  /\ UpdatesOfDifferentFields
  /\ \A p \in 1..3 : processes[p].pc = "exited" /\ processes[p].exitCode = 0
  /\ serverTasks[1].title = <<"C","o","n","c","u","r","r","e","n","t"," ","t","a","s","k">>
  /\ serverTasks[1].priority = <<"h","i","g","h">>
  /\ serverTasks[1].description = <<"U","p","d","a","t","e","d"," ","d","e","s","c","r","i","p","t","i","o","n">>
  /\ serverTasks[1].tags = <<<<"t","e","s","t","i","n","g">>, <<"c","o","n","c","u","r","r","e","n","t">>>>

\* C17: the 'status' command and the 'task' commands, when the global config
\* or the project config is missing, send no API request and terminate with a
\* failure (non-zero exit) whose message mentions the missing configuration.
C17_MissingConfigFailsWithoutRequest ==
  (globalConfigFile = MissingFile \/ projectConfigFile = MissingFile) =>
    \A p \in DOMAIN processes :
      /\ processes[p].sent = 0
      /\ processes[p].pc \in {"start", "exited"}
      /\ processes[p].pc = "exited" =>
           /\ processes[p].exitCode # 0
           /\ \E i \in 1..Len(processes[p].stderr) :
                Includes(processes[p].stderr[i], <<"c","o","n","f","i","g","u","r","a","t","i","o","n">>)

(***************************************************************************)
(* Properties of the API client                                            *)
(***************************************************************************)
\* the text 'title description tags' of a task, the description left out
\* when the task has none
SearchedText(t) ==
  t.title \o <<" ">> \o (IF t.description \in {Undefined, <<>>} THEN <<>> ELSE t.description)
  \o <<" ">> \o Join(t.tags, <<" ">>)

\* k occurs in s at some position, the case of the letters ignored
ContainsIgnoringCase(s, k) ==
  \E at \in 0..(Len(s) - Len(k)) :
    \A j \in 1..Len(k) : ToLowerChar(s[at + j]) = ToLowerChar(k[j])

\* C21: findTasksByKeywords returns exactly the fetched tasks whose lower-cased
\* text 'title description tags' contains at least one of the keywords
\* (lower-cased) as a substring, in the order in which the service returned
\* them; with an empty keyword list it returns no task.
C21_ExactlyTheTasksContainingAKeyword ==
  Returned("findTasksByKeywords") =>
    LET hits == {i \in 1..Len(tasks) :
                   \E n \in 1..Len(keywords) :
                     ContainsIgnoringCase(SearchedText(tasks[i]), keywords[n])}
    IN  /\ result = [n \in 1..Cardinality(hits) |-> tasks[Ascending(hits)[n]]]
        /\ keywords = <<>> => result = <<>>

\* the call of the test: of 'Stripe integration', 'User profile' and 'Payment
\* gateway' the keywords stripe and payment find the first and the third
C21_Witness ==
  /\ Returned("findTasksByKeywords")
  /\ Ids(tasks) = <<1, 2, 3>>
  /\ keywords = <<<<"s","t","r","i","p","e">>, <<"p","a","y","m","e","n","t">>>>
  /\ Ids(result) = <<1, 3>>

\* the request GET /projects was answered with a status of success
RequestSucceeded == answer.answered /\ answer.status >= 200 /\ answer.status < 300

\* C22: testConnection never rejects: it resolves to true exactly when the
\* getProjects request succeeds and to false for every failure of that
\* request (network error, 401, 403 or any other error).
C22_TestConnectionNeverRejects ==
  Returned("testConnection") =>
    /\ ~result.threw
    /\ result.value \in BOOLEAN
    /\ result.value <=> RequestSucceeded

\* a refused connection or a 401 has resolved to false
C22_Witness ==
  /\ Returned("testConnection")
  /\ \/ ~answer.answered /\ result = [threw |-> FALSE, value |-> FALSE]
     \/ answer.answered /\ answer.status = 401 /\ result = [threw |-> FALSE, value |-> FALSE]

(***************************************************************************)
(* C26: starting from any status and repeatedly replacing a task's status  *)
(* by suggestTaskStatus(task, c) for an arbitrary sequence of change types *)
(* c, the only status change that ever occurs is todo -> in_progress: the  *)
(* status never moves back to todo, never becomes done unless it started   *)
(* as done, and is constant after the first create/modify.                 *)
(***************************************************************************)
\* the statuses the task has had, and the change types of the calls made on them
StatusesSoFar ==
  [i \in 1..Len(history) |-> history[i].status] \o <<task.status>>
  \o (IF pc = "done" THEN <<result>> ELSE <<>>)

ChangesSoFar == [i \in 1..Len(history) |-> history[i].changeType] \o <<changeType>>

C26_OnlyTodoToInProgress ==
  op = "suggestTaskStatus" =>
    LET statuses == StatusesSoFar
        n == Len(statuses)
    IN  /\ \A i \in 1..(n - 1) :
             statuses[i + 1] # statuses[i] =>
               statuses[i] = "todo" /\ statuses[i + 1] = "in_progress"
        /\ \A i \in 1..n : \A j \in i..n : statuses[j] = "todo" => statuses[i] = "todo"
        /\ \A j \in 1..n : statuses[j] = "done" => statuses[1] = "done"
        /\ \A i \in 1..(n - 1) :
             ChangesSoFar[i] \in {"create", "modify"} =>
               \A j \in (i + 1)..n : statuses[j] = statuses[i + 1]

\* a task in todo was deleted from, modified and created: it moved to
\* in_progress at the modification and stayed there
C26_Witness ==
  /\ Returned("suggestTaskStatus")
  /\ ChangesSoFar = <<"delete", "modify", "create">>
  /\ StatusesSoFar = <<"todo", "todo", "in_progress", "in_progress">>

(***************************************************************************)
(* The post-tool-use hook (hooks/post_tool_use.sh) and the commands it     *)
(* runs: 'task update dummy --file-keywords K --status in_progress' and    *)
(* 'task done N' (commands/task.ts) and 'sync --update-claude-md'          *)
(* (index.ts).  TOOL_TYPE is a plain string, FILE_PATH and CONTENT are     *)
(* sequences of characters.  The letters of the patterns are the ASCII     *)
(* letters (the C locale).                                                 *)
(***************************************************************************)
\* find_related_tasks: the keyword string echoed, for a file_path that is not
\* empty and does not start with '-' (basename and dirname of coreutils)
FindRelatedTasks(file_path) ==
  LET Last_(S) == CHOOSE i \in S : \A j \in S : j <= i
      \* s without its trailing slashes
      Stripped(s) ==
        LET others == {i \in 1..Len(s) : s[i] # "/"}
        IN  IF others = {} THEN <<>> ELSE SubSeq(s, 1, Last_(others))
      Slashes(s) == {i \in 1..Len(s) : s[i] = "/"}
      basename(s) ==
        LET t == Stripped(s)
        IN  IF t = <<>> THEN (IF s = <<>> THEN <<>> ELSE <<"/">>)
            ELSE IF Slashes(t) = {} THEN t
            ELSE SubSeq(t, Last_(Slashes(t)) + 1, Len(t))
      dirname_(s) ==
        LET t == Stripped(s)
        IN  IF t = <<>> THEN (IF s = <<>> THEN <<".">> ELSE <<"/">>)
            ELSE IF Slashes(t) = {} THEN <<".">>
            ELSE LET d == Stripped(SubSeq(t, 1, Last_(Slashes(t)) - 1))
                 IN  IF d = <<>> THEN <<"/">> ELSE d
      filename == basename(file_path)
      dirname == dirname_(file_path)
      dots == {i \in 1..Len(filename) : filename[i] = "."}
      \* ${filename%.*}
      base_name == IF dots = {} THEN filename ELSE SubSeq(filename, 1, Last_(dots) - 1)
      \* ([A-Z][a-z]+): the places where it matches
      capitals == {i \in 1..(Len(filename) - 1) :
                     IsUpper(filename[i]) /\ IsLowerLetter(filename[i + 1])}
      BASH_REMATCH(i) ==
        SubSeq(filename, i,
               CHOOSE e \in (i + 1)..Len(filename) :
                 /\ \A j \in (i + 1)..e : IsLowerLetter(filename[j])
                 /\ (e < Len(filename) => ~IsLowerLetter(filename[e + 1])))
      keywords_ ==
        <<base_name>>
        \o (IF dirname # <<".">> /\ dirname # <<"/">> THEN <<basename(dirname)>> ELSE <<>>)
        \o (IF capitals # {}
              THEN <<BASH_REMATCH(CHOOSE i \in capitals : \A j \in capitals : i <= j)>>
              ELSE <<>>)
  IN  Join(keywords_, <<",">>)

\* check_completion_patterns: the status returned and the task id handed to
\* '200notes task done' (empty: the command is not run)
CheckCompletionPatterns(context) ==
  LET completion_patterns ==
        <<[word |-> <<"c","l","o","s","e","s">>, any |-> FALSE], [word |-> <<"f","i","x","e","s">>, any |-> FALSE],
          [word |-> <<"r","e","s","o","l","v","e","s">>, any |-> FALSE], [word |-> <<"c","o","m","p","l","e","t","e","d">>, any |-> TRUE],
          [word |-> <<"f","i","n","i","s","h","e","d">>, any |-> TRUE], [word |-> <<"d","o","n","e">>, any |-> TRUE]>>
      IsDigitAt(i) == i \in 1..Len(context) /\ context[i] \in Digits
      \* #([0-9]+) at offset q or later: the offsets of '#'
      Numbers(q) == {n \in q..(Len(context) - 2) : context[n + 1] = "#" /\ IsDigitAt(n + 2)}
      \* ([0-9]+) after the '#' at offset n
      Captured(n) ==
        SubSeq(context, n + 2,
               CHOOSE e \in (n + 2)..Len(context) :
                 (\A i \in (n + 2)..e : IsDigitAt(i)) /\ ~IsDigitAt(e + 1))
      \* the offsets where the pattern matches
      Matches(pattern) ==
        {q \in 0..Len(context) :
           /\ StartsWithAt(context, q, pattern.word)
           /\ IF pattern.any
                THEN Numbers(q + Len(pattern.word)) # {}                    \* word.*#
                ELSE /\ StartsWithAt(context, q + Len(pattern.word), <<" ">>)  \* word #
                     /\ q + Len(pattern.word) + 1 \in Numbers(0)}
      \* the leftmost match, and of the matches starting there the longest
      Rematch(pattern) ==
        LET q == CHOOSE x \in Matches(pattern) : \A y \in Matches(pattern) : x <= y
            later == Numbers(q + Len(pattern.word))
        IN  IF pattern.any
              THEN Captured(CHOOSE n \in later : \A m \in later : m <= n)
              ELSE Captured(q + Len(pattern.word) + 1)
      matching == {i \in 1..Len(completion_patterns) : Matches(completion_patterns[i]) # {}}
  IN  IF matching # {}
        THEN [status |-> 0,
              task_id |-> Rematch(completion_patterns[CHOOSE i \in matching : \A j \in matching : i <= j])]
      ELSE IF \E w \in {<<"c","o","m","p","l","e","t","e","d">>, <<"f","i","n","i","s","h","e","d">>, <<"d","o","n","e">>} : Includes(context, w)
        THEN [status |-> 0, task_id |-> <<>>]
      ELSE [status |-> 1, task_id |-> <<>>]

UpdateTaskStatusAlwaysUpdating(tool_type) ==
  IF tool_type \in {"Edit", "Write", "MultiEdit", "Bash"}
    THEN "update_tasks_to_in_progress"
    ELSE "none"

\* update_task_status: the function the case statement runs for a tool type
UpdateTaskStatus(tool_type) ==
  IF tool_type \in {"Edit", "Write", "MultiEdit"} THEN "update_tasks_to_in_progress"
  ELSE IF tool_type = "Bash" THEN "check_completion_patterns"
  ELSE "none"

(***************************************************************************)
(* The commands the hook runs.  Of a run of a command the model keeps the  *)
(* requests it sent and the files it wrote, oldest first, each with        *)
(* whether it succeeded.  What the service and the disk do to a run is its *)
(* parameter: service.down (the request for the tasks fails),              *)
(* service.failing (the ids of the tasks whose update request fails) and   *)
(* service.diskFull (the writes of files fail).                            *)
(***************************************************************************)
UpdateTasksByKeywordsStoppingAtAFailure(keywords_, options, service) ==
  LET found == GetApiClientAndProject
      listed == SelectSeq(serverTasks,
                          LAMBDA t : t.project = Field(GetProjectConfig, "projectId"))
      matched == FindTasksByKeywords(listed,
                                     FilterBoolean(MapSeq(Split(keywords_, "comma"), Trim)))
      built == BuildUpdates(options)
      get == [kind |-> "request", what |-> [method |-> "GET", id |-> 0, body |-> <<>>],
              ok |-> ~service.down]
      Put(t) == [kind |-> "request", what |-> [method |-> "PUT", id |-> t.id, body |-> built],
                 ok |-> t.id \notin service.failing]
      failed == {i \in 1..Len(matched) : matched[i].id \in service.failing}
      sent == IF failed = {} THEN Len(matched)
              ELSE CHOOSE i \in failed : \A j \in failed : i <= j
      Sent(id) == \E i \in 1..sent : matched[i].id = id
  IN  IF found.threw
        THEN [exitCode |-> 1, events |-> <<>>, stored |-> serverTasks]
      ELSE IF service.down
        THEN [exitCode |-> 1, events |-> <<get>>, stored |-> serverTasks]
      ELSE IF matched = <<>>
        THEN [exitCode |-> 0, events |-> <<get>>, stored |-> serverTasks]
      ELSE IF DOMAIN built = {}
        THEN [exitCode |-> 1, events |-> <<get>>, stored |-> serverTasks]
      ELSE [exitCode |-> IF failed = {} THEN 0 ELSE 1,
            events |-> <<get>> \o [i \in 1..sent |-> Put(matched[i])],
            stored |-> [id \in DOMAIN serverTasks |->
                          IF Sent(id) /\ id \notin service.failing
                            THEN PutTask(serverTasks[id], built)
                            ELSE serverTasks[id]]]

\* task.ts 'task update <taskId> --file-keywords <keywords>': updateTasksByKeywords
\* and the catch of the command's action; the exit code of the process, the
\* requests sent and the tasks the service is left with
UpdateTasksByKeywords(keywords_, options, service) ==
  LET found == GetApiClientAndProject
      \* apiClient.getTasks(projectId), in the order of the ids
      listed == SelectSeq(serverTasks,
                          LAMBDA t : t.project = Field(GetProjectConfig, "projectId"))
      keywordList == FilterBoolean(MapSeq(Split(keywords_, "comma"), Trim))
      matched == FindTasksByKeywords(listed, keywordList)
      built == BuildUpdates(options)
      get == [kind |-> "request", what |-> [method |-> "GET", id |-> 0, body |-> <<>>],
              ok |-> ~service.down]
      Put(t) == [kind |-> "request", what |-> [method |-> "PUT", id |-> t.id, body |-> built],
                 ok |-> t.id \notin service.failing]
      Updated(id) == \E i \in 1..Len(matched) : matched[i].id = id
  IN  IF found.threw
        THEN [exitCode |-> 1, events |-> <<>>, stored |-> serverTasks]
      ELSE IF service.down
        THEN [exitCode |-> 1, events |-> <<get>>, stored |-> serverTasks]
      ELSE IF matched = <<>>
        THEN [exitCode |-> 0, events |-> <<get>>, stored |-> serverTasks]
      ELSE IF DOMAIN built = {}      \* 'No updates provided'
        THEN [exitCode |-> 1, events |-> <<get>>, stored |-> serverTasks]
      ELSE [exitCode |-> 0,
            events |-> <<get>> \o [i \in 1..Len(matched) |-> Put(matched[i])],
            stored |-> [id \in DOMAIN serverTasks |->
                          IF Updated(id) /\ id \notin service.failing
                            THEN PutTask(serverTasks[id], built)
                            ELSE serverTasks[id]]]

\* new Date().toISOString() on the day of the run
ToISOString(date) == <<"2","0","2","6","-","0","1","-","0">> \o <<<<"0","1","2","3","4","5","6","7","8","9">>[date + 1]>>

SyncCommandStampingFirst(options, service, date) ==
  LET stamped == UpdateProjectConfig(GetProjectConfig, [lastSync |-> ToISOString(date)]).file
      get == [kind |-> "request", what |-> [method |-> "GET", id |-> 0, body |-> <<>>],
              ok |-> ~service.down]
      written == [kind |-> "write", what |-> "CLAUDE.md", ok |-> ~service.diskFull]
      saved == [kind |-> "write", what |-> ".200notes.json", ok |-> ~service.diskFull]
  IN  IF GetApiConfig = Null \/ GetProjectConfig = Null
        THEN [exitCode |-> 0, events |-> <<>>, file |-> projectConfigFile, claudeMd |-> FALSE]
      ELSE IF service.diskFull
        THEN [exitCode |-> 1, events |-> <<saved>>, file |-> projectConfigFile, claudeMd |-> FALSE]
      ELSE IF service.down
        THEN [exitCode |-> 1, events |-> <<saved, get>>, file |-> stamped, claudeMd |-> FALSE]
      ELSE [exitCode |-> 0,
            events |-> <<saved, get>> \o (IF options.updateClaudeMd THEN <<written>> ELSE <<>>),
            file |-> stamped, claudeMd |-> options.updateClaudeMd]

\* index.ts 'sync [--update-claude-md]': the exit code of the process (a
\* rejection of the action is not handled: Node 15 and later exit with 1),
\* the request sent and the files written, the project config file it leaves
\* and whether it wrote CLAUDE.md
SyncCommand(options, service, date) ==
  LET update == UpdateProjectConfig(GetProjectConfig, [lastSync |-> ToISOString(date)])
      get == [kind |-> "request", what |-> [method |-> "GET", id |-> 0, body |-> <<>>],
              ok |-> ~service.down]
      written == [kind |-> "write", what |-> "CLAUDE.md", ok |-> ~service.diskFull]
      saved == [kind |-> "write", what |-> ".200notes.json", ok |-> ~service.diskFull]
  IN  IF GetApiConfig = Null \/ GetProjectConfig = Null
        THEN [exitCode |-> 0, events |-> <<>>, file |-> projectConfigFile, claudeMd |-> FALSE]
      ELSE IF service.down
        THEN [exitCode |-> 1, events |-> <<get>>, file |-> projectConfigFile, claudeMd |-> FALSE]
      ELSE IF options.updateClaudeMd /\ service.diskFull
        THEN [exitCode |-> 1, events |-> <<get, written>>, file |-> projectConfigFile,
              claudeMd |-> FALSE]
      ELSE IF service.diskFull
        THEN [exitCode |-> 1, events |-> <<get, saved>>, file |-> projectConfigFile,
              claudeMd |-> FALSE]
      ELSE [exitCode |-> 0,
            events |-> <<get>> \o (IF options.updateClaudeMd THEN <<written>> ELSE <<>>)
                       \o <<saved>>,
            file |-> update.file, claudeMd |-> options.updateClaudeMd]

(***************************************************************************)
(* Runs of the hook and of the two commands at the prompt, one after the   *)
(* other, on the service as seeded.  pc is the function of the hook about  *)
(* to run, result the exit status, history what the run did so far.  Of    *)
(* the directory the state holds .200notes.json (projectConfigFile) and    *)
(* which writer left CLAUDE.md (env.claudeMd); env.date counts the runs.   *)
(***************************************************************************)
HookInit ==
  /\ op = "none" /\ pc = "idle" /\ result = Pending
  /\ filePath = <<>> /\ content = <<>> /\ task = NoTask /\ tasks = <<>>
  /\ keywords = <<>> /\ changeType = "modify"
  /\ config = <<>> /\ updates = <<>> /\ processes = <<>> /\ answer = <<>>
  /\ history = <<>>
  /\ env = [TOOL_TYPE |-> "unknown", FILE_PATH |-> <<>>, CONTENT |-> <<>>,
            installed |-> TRUE, date |-> 0, claudeMd |-> "none"]
  /\ globalConfigFile \in
       {MissingFile,
        WriteJson([apiKey |-> TEST_API_KEY, apiSecret |-> TEST_API_SECRET,
                   baseUrl |-> <<"h","t","t","p",":","/","/","l","o","c","a","l","h","o","s","t",":","3","0","0","0">>])}
  /\ projectConfigFile \in
       {MissingFile,
        WriteJson([projectId |-> TEST_PROJECT_ID, name |-> <<"T","e","s","t"," ","P","r","o","j","e","c","t">>,
                   lastSync |-> <<"2","0","2","3","-","0","1","-","0","1">>])}
  /\ serverTasks = SeedTasks

\* main up to the function update_task_status runs, or to its end
Main ==
  /\ pc = "idle" /\ env.date < MaxRuns
  /\ \E TOOL_TYPE \in {"Edit", "Write", "MultiEdit", "Bash", "Read", "unknown"},
        FILE_PATH \in {<<>>, <<"s","r","c","/","s","t","r","i","p","e",".","j","s">>, <<"b","a","c","k","e","n","d","/","P","d","f","S","e","r","v","i","c","e",".","t","s">>, <<".","g","i","t","i","g","n","o","r","e">>,
                       <<"c","l","o","s","e","s"," ","#","2">>, <<"f","i","x","e","s"," ","#","3"," ","c","l","o","s","e","s"," ","#","1">>, <<"l","s"," ","-","l","a">>, <<"d","o","n","e">>},
        CONTENT \in {<<>>, <<"g","i","t"," ","c","o","m","m","i","t"," ","-","m"," ","\"","c","l","o","s","e","s"," ","#","1","\"">>},
        installed \in BOOLEAN :
       LET step == IF FILE_PATH = <<>> THEN "none" ELSE UpdateTaskStatus(TOOL_TYPE)
       IN  \* the pairs of tool and path the tools produce, and a command in CONTENT
           /\ CONTENT # <<>> => TOOL_TYPE = "Bash" /\ FILE_PATH = <<>>
           /\ ~installed => TOOL_TYPE = "Edit" /\ FILE_PATH = <<"s","r","c","/","s","t","r","i","p","e",".","j","s">>
           /\ env' = [env EXCEPT !.TOOL_TYPE = TOOL_TYPE, !.FILE_PATH = FILE_PATH,
                                 !.CONTENT = CONTENT, !.installed = installed,
                                 !.date = @ + 1]
           /\ IF projectConfigFile.kind = "missing" \/ ~installed
                THEN /\ pc' = "exited" /\ result' = 0
                     /\ history' = <<[kind |-> "step", what |-> "skipped", ok |-> TRUE]>>
              ELSE IF step = "none"
                THEN /\ pc' = "exited" /\ result' = 0
                     /\ history' = <<[kind |-> "step", what |-> "completed", ok |-> TRUE]>>
              ELSE /\ pc' = step /\ result' = Pending
                   /\ history' = <<>>
  /\ op' = "hook"
  /\ UNCHANGED <<filePath, content, task, tasks, keywords, changeType, globalConfigFile,
                 projectConfigFile, config, updates, processes, serverTasks, answer>>

\* update_tasks_to_in_progress
UpdateTasksToInProgress ==
  /\ pc = "update_tasks_to_in_progress"
  /\ LET keywords_ == FindRelatedTasks(env.FILE_PATH)
         options == [fileKeywords |-> keywords_, status |-> <<"i","n","_","p","r","o","g","r","e","s","s">>]
         step == [kind |-> "step", what |-> "update_tasks_to_in_progress", ok |-> TRUE]
         Ran(run) ==
           /\ history' = history
                \o <<step, [kind |-> "cli",
                            what |-> [command |-> "task update", options |-> options],
                            ok |-> run.exitCode = 0]>>
                \o run.events
           /\ serverTasks' = run.stored
     IN  IF keywords_ = <<>>
           THEN history' = Append(history, step) /\ UNCHANGED serverTasks
           ELSE \E down \in BOOLEAN, failing \in {{}, {1}, {2}} :
                  Ran(UpdateTasksByKeywords(keywords_, options,
                        [down |-> down, failing |-> failing, diskFull |-> FALSE]))
  /\ pc' = "regenerate_claude_md"
  /\ UNCHANGED <<op, result, filePath, content, task, tasks, keywords, changeType,
                 globalConfigFile, projectConfigFile, config, updates, processes, answer, env>>

\* check_completion_patterns with '200notes task done' (task.ts markTaskDone
\* of a number), and the end of main or of the script (set -e)
CheckCompletion ==
  /\ pc = "check_completion_patterns"
  /\ LET found == CheckCompletionPatterns(env.FILE_PATH)
         task_id == ParseInt(found.task_id)
         step == [kind |-> "step", what |-> "check_completion_patterns", ok |-> found.status = 0]
         end == IF found.status = 0
                  THEN <<[kind |-> "step", what |-> "completed", ok |-> TRUE]>>
                  ELSE <<>>
         Cli(ok) == [kind |-> "cli", what |-> [command |-> "task done", options |-> found.task_id],
                     ok |-> ok]
         Patch(ok) == [kind |-> "request",
                       what |-> [method |-> "PATCH", id |-> task_id, body |-> [status |-> <<"d","o","n","e">>]],
                       ok |-> ok]
     IN  IF found.task_id = <<>>
           THEN history' = history \o <<step>> \o end /\ UNCHANGED serverTasks
         ELSE IF GetApiClientAndProject.threw
           THEN history' = history \o <<step, Cli(FALSE)>> \o end /\ UNCHANGED serverTasks
         ELSE \E down \in BOOLEAN :
                IF down \/ task_id \notin DOMAIN serverTasks
                  THEN /\ history' = history \o <<step, Cli(FALSE), Patch(FALSE)>> \o end
                       /\ UNCHANGED serverTasks
                  ELSE /\ history' = history \o <<step, Cli(TRUE), Patch(TRUE)>> \o end
                       /\ serverTasks' = [serverTasks EXCEPT ![task_id]["status"] = <<"d","o","n","e">>]
  /\ pc' = "exited"
  /\ result' = CheckCompletionPatterns(env.FILE_PATH).status
  /\ UNCHANGED <<op, filePath, content, task, tasks, keywords, changeType,
                 globalConfigFile, projectConfigFile, config, updates, processes, answer, env>>

\* regenerate_claude_md with generate_basic_claude_md, and the end of main
RegenerateClaudeMd ==
  /\ pc = "regenerate_claude_md"
  /\ \E down \in BOOLEAN, diskFull \in BOOLEAN :
       LET Ran(run) ==
             /\ history' = history
                  \o <<[kind |-> "step", what |-> "regenerate_claude_md", ok |-> TRUE],
                       [kind |-> "cli",
                        what |-> [command |-> "sync", options |-> [updateClaudeMd |-> TRUE]],
                        ok |-> run.exitCode = 0]>>
                  \o run.events
                  \o (IF run.exitCode # 0
                        THEN <<[kind |-> "write", what |-> "CLAUDE.md", ok |-> ~diskFull]>>
                        ELSE <<>>)
                  \o (IF run.exitCode # 0 /\ diskFull
                        THEN <<>>
                        ELSE <<[kind |-> "step", what |-> "completed", ok |-> TRUE]>>)
             /\ projectConfigFile' = run.file
             /\ env' = [env EXCEPT !.claudeMd = IF run.claudeMd THEN "sync"
                                                ELSE IF run.exitCode # 0 /\ ~diskFull THEN "basic"
                                                ELSE @]
             /\ result' = IF run.exitCode # 0 /\ diskFull THEN 1 ELSE 0
       IN  Ran(SyncCommand([updateClaudeMd |-> TRUE],
                           [down |-> down, failing |-> {}, diskFull |-> diskFull], env.date))
  /\ pc' = "exited"
  /\ UNCHANGED <<op, filePath, content, task, tasks, keywords, changeType, globalConfigFile,
                 config, updates, processes, serverTasks, answer>>

\* '200notes task update dummy --file-keywords K [--status S] [--priority P]' and
\* '200notes sync [--update-claude-md]' at the prompt
RunCommand ==
  /\ pc = "idle" /\ env.date < MaxRuns
  /\ \E name \in {"task update", "sync"},
        K \in {<<"s","t","r","i","p","e",",","s","r","c">>, <<"b","a","c","k","e","n","d">>, <<",","n","o","t","h","i","n","g">>},
        given \in SUBSET {"status", "priority"},
        updateClaudeMd \in BOOLEAN,
        down \in BOOLEAN, failing \in {{}, {1}, {2}}, diskFull \in BOOLEAN :
       LET service == [down |-> down, failing |-> failing, diskFull |-> diskFull]
           all == [fileKeywords |-> K, status |-> <<"i","n","_","p","r","o","g","r","e","s","s">>, priority |-> <<"h","i","g","h">>]
           options == [k \in given \cup {"fileKeywords"} |-> all[k]]
           Updated(run) ==
             /\ history' = <<[kind |-> "cli",
                              what |-> [command |-> "task update", options |-> options],
                              ok |-> run.exitCode = 0]>> \o run.events
             /\ serverTasks' = run.stored
             /\ result' = run.exitCode
             /\ env' = [env EXCEPT !.date = @ + 1]
             /\ UNCHANGED projectConfigFile
           Synced(run) ==
             /\ history' = <<[kind |-> "cli",
                              what |-> [command |-> "sync",
                                        options |-> [updateClaudeMd |-> updateClaudeMd]],
                              ok |-> run.exitCode = 0]>> \o run.events
             /\ projectConfigFile' = run.file
             /\ result' = run.exitCode
             /\ env' = [env EXCEPT !.date = @ + 1,
                                   !.claudeMd = IF run.claudeMd THEN "sync" ELSE @]
             /\ UNCHANGED serverTasks
       IN  /\ op' = name
           /\ IF name = "task update"
                THEN /\ ~diskFull /\ ~updateClaudeMd
                     /\ Updated(UpdateTasksByKeywords(K, options, service))
                ELSE /\ given = {} /\ failing = {} /\ K = <<"b","a","c","k","e","n","d">>
                     /\ Synced(SyncCommand([updateClaudeMd |-> updateClaudeMd], service,
                                           env.date + 1))
  /\ pc' = "exited"
  /\ UNCHANGED <<filePath, content, task, tasks, keywords, changeType, globalConfigFile,
                 config, updates, processes, answer>>

\* the process has ended: its variables and what it did are gone, the files
\* and the tasks of the service stay
Forget ==
  /\ pc = "exited"
  /\ pc' = "idle" /\ op' = "none" /\ result' = Pending
  /\ history' = <<>>
  /\ env' = [env EXCEPT !.TOOL_TYPE = "unknown", !.FILE_PATH = <<>>, !.CONTENT = <<>>,
                        !.installed = TRUE]
  /\ UNCHANGED <<filePath, content, task, tasks, keywords, changeType, globalConfigFile,
                 projectConfigFile, config, updates, processes, serverTasks, answer>>

HookSpec ==
  HookInit /\ [][\/ Main
                 \/ UpdateTasksToInProgress
                 \/ CheckCompletion
                 \/ RegenerateClaudeMd
                 \/ RunCommand
                 \/ Forget]_vars

(***************************************************************************)
(* Properties of the hook and of the commands it runs                      *)
(***************************************************************************)
\* the functions of the hook that ran, and the commands it or the prompt ran
FunctionsRun ==
  LET steps == SelectSeq(history, LAMBDA h : h.kind = "step")
      names == [i \in 1..Len(steps) |-> steps[i].what]
  IN  SelectSeq(names, LAMBDA n : n \notin {"completed", "skipped"})

CommandsRun ==
  LET calls == SelectSeq(history, LAMBDA h : h.kind = "cli")
  IN  [i \in 1..Len(calls) |-> calls[i].what]

\* a run of the hook has ended in a configured project with the CLI installed
HookEnded ==
  op = "hook" /\ pc = "exited" /\ projectConfigFile.kind # "missing" /\ env.installed

C24_CommitMessageMarksTheTaskDone ==
  (HookEnded /\ env.TOOL_TYPE = "Bash") =>
    LET message == IF env.CONTENT # <<>> THEN env.CONTENT ELSE env.FILE_PATH
        N == CheckCompletionPatterns(message).task_id
    IN  CommandsRun = IF N # <<>> THEN <<[command |-> "task done", options |-> N]>> ELSE <<>>

(***************************************************************************)
(* C25: in the file-edit flow (hook on Edit/Write/MultiEdit -> 'task       *)
(* update --file-keywords ... --status in_progress' ->                     *)
(* updateTasksByKeywords), a task whose status is done is never changed to *)
(* in_progress (never auto-reopened), after any sequence of hook firings.  *)
(***************************************************************************)
C25_HookNeverReopensADoneTask ==
  [][op = "hook" =>
       \A id \in DOMAIN serverTasks :
         serverTasks[id].status = <<"d","o","n","e">> => serverTasks'[id].status # <<"i","n","_","p","r","o","g","r","e","s","s">>]_vars

(***************************************************************************)
(* C27: the post-tool-use hook always terminates with exit status 0 after  *)
(* reaching 'Post-tool-use hook completed' or an explicit skip, for every  *)
(* TOOL_TYPE and every FILE_PATH, whether or not a completion pattern is   *)
(* found and whether or not a CLI call fails: it never aborts midway.      *)
(***************************************************************************)
C27_HookAlwaysExitsWithZero ==
  (op = "hook" /\ pc = "exited") =>
    /\ result = 0
    /\ history # <<>>
    /\ history[Len(history)].kind = "step"
    /\ history[Len(history)].what \in {"completed", "skipped"}

(***************************************************************************)
(* C28: updateTasksByKeywords sends exactly one update request per         *)
(* matching task, in the order the tasks were found, and a failed request  *)
(* for one task does not prevent the requests for the remaining tasks (the *)
(* tasks whose request succeeded are updated, the others are left as they  *)
(* were); when no task matches, or when no update option was given, it     *)
(* sends no update request at all.                                         *)
(***************************************************************************)
\* what the step taken has added to the history
NewEvents == SubSeq(history', Len(history) + 1, Len(history'))

C28_OneUpdateRequestPerMatchingTask ==
  [][LET calls == SelectSeq(NewEvents,
                            LAMBDA h : h.kind = "cli" /\ h.what.command = "task update")
         puts == SelectSeq(NewEvents,
                           LAMBDA h : h.kind = "request" /\ h.what.method = "PUT")
         Sent(options) ==
           LET fetched == \E i \in 1..Len(NewEvents) :
                            /\ NewEvents[i].kind = "request"
                            /\ NewEvents[i].what.method = "GET" /\ NewEvents[i].ok
               matching == FindTasksByKeywords(serverTasks,
                             FilterBoolean(MapSeq(Split(options.fileKeywords, "comma"), Trim)))
               given == DOMAIN options \ {"fileKeywords"}
               Succeeded(id) == \E i \in 1..Len(puts) : puts[i].what.id = id /\ puts[i].ok
           IN  IF fetched /\ given # {}
                 THEN /\ [i \in 1..Len(puts) |-> puts[i].what.id] = Ids(matching)
                      /\ \A i \in 1..Len(puts) :
                           puts[i].what.body = [k \in given |-> options[k]]
                      /\ \A id \in DOMAIN serverTasks :
                           serverTasks'[id] =
                             IF Succeeded(id)
                               THEN Spread(serverTasks[id], [k \in given |-> options[k]])
                               ELSE serverTasks[id]
                 ELSE puts = <<>> /\ serverTasks' = serverTasks
     IN  calls # <<>> => Sent(calls[1].what.options)]_vars

\* 'task update dummy --file-keywords backend --status in_progress --priority
\* high': the request for task 1 failed, the one for task 2 was sent and took
\* effect
C28_Witness ==
  LET puts == SelectSeq(history, LAMBDA h : h.kind = "request" /\ h.what.method = "PUT")
  IN  /\ op = "task update" /\ pc = "exited" /\ result = 0
      /\ [i \in 1..Len(puts) |-> puts[i].what.id] = <<1, 2>>
      /\ ~puts[1].ok /\ puts[2].ok
      /\ DOMAIN puts[1].what.body = {"status", "priority"}
      /\ serverTasks[1].status = <<"t","o","d","o">>
      /\ serverTasks[2].priority = <<"h","i","g","h">>

(***************************************************************************)
(* C29: the sync command writes a new lastSync into the project config     *)
(* only after the task list was fetched successfully and, with             *)
(* --update-claude-md, after CLAUDE.md was written; when configuration is  *)
(* missing or the fetch or the CLAUDE.md write fails, the stored project   *)
(* config (including lastSync) is unchanged.                               *)
(***************************************************************************)
C29_LastSyncOnlyAfterASuccessfulSync ==
  [][LET calls == SelectSeq(NewEvents, LAMBDA h : h.kind = "cli" /\ h.what.command = "sync")
         n == Len(NewEvents)
         Fetched(i) == /\ NewEvents[i].kind = "request" /\ NewEvents[i].what.method = "GET"
                       /\ NewEvents[i].ok
         Written(i) == /\ NewEvents[i].kind = "write" /\ NewEvents[i].what = "CLAUDE.md"
                       /\ NewEvents[i].ok
         Saved(i) == /\ NewEvents[i].kind = "write" /\ NewEvents[i].what = ".200notes.json"
                     /\ NewEvents[i].ok
         Failed(i) == /\ ~NewEvents[i].ok
                      /\ \/ NewEvents[i].kind = "request"
                         \/ NewEvents[i].kind = "write" /\ NewEvents[i].what = "CLAUDE.md"
     IN  /\ projectConfigFile' # projectConfigFile =>
              /\ calls # <<>>
              /\ \E g \in 1..n, s \in 1..n :
                   /\ Fetched(g) /\ Saved(s) /\ g < s
                   /\ calls[1].what.options.updateClaudeMd =>
                        \E w \in 1..n : Written(w) /\ g < w /\ w < s
              /\ projectConfigFile'.data =
                   Spread(projectConfigFile.data, [lastSync |-> ToISOString(env'.date)])
         /\ (calls # <<>> /\ (GetApiConfig = Null \/ GetProjectConfig = Null
                              \/ \E i \in 1..n : Failed(i)))
              => projectConfigFile' = projectConfigFile]_vars

\* the hook's 'sync --update-claude-md' has fetched the tasks, written
\* CLAUDE.md and then stamped the project config with the date of the run
C29_Witness ==
  /\ HookEnded /\ result = 0
  /\ env.claudeMd = "sync"
  /\ \E g, w, s \in 1..Len(history) :
       /\ g < w /\ w < s
       /\ history[g].kind = "request" /\ history[g].what.method = "GET" /\ history[g].ok
       /\ history[w].kind = "write" /\ history[w].what = "CLAUDE.md" /\ history[w].ok
       /\ history[s].kind = "write" /\ history[s].what = ".200notes.json" /\ history[s].ok
  /\ projectConfigFile.data.lastSync = ToISOString(env.date)
  /\ env.date = 2

(***************************************************************************)
(* Concurrent callers of ConfigManager.updateProjectConfig and             *)
(* updateGlobalConfig (lib/config.ts): commands running at once, such as   *)
(* the 'sync' of two hooks.  An update awaits the read of the file and     *)
(* then the write of the new configuration; between the two the other      *)
(* callers run.  Of a caller the state holds the file it updates, its      *)
(* updates, its position and the configuration it has read.                *)
(***************************************************************************)
RaceInit ==
  LET Caller(file, changes) ==
        [file |-> file, updates |-> changes, pc |-> "start", currentConfig |-> Null]
      Callers ==
        { Caller("project", [lastSync |-> <<"2","0","2","6","-","0","1","-","0","1">>]),
          Caller("project", [name |-> <<"R","e","n","a","m","e","d">>]),
          Caller("project", [lastSync |-> <<"2","0","2","6","-","0","1","-","0","2">>]),
          Caller("global", [apiKey |-> <<"n","e","w","_","k","e","y">>]),
          Caller("global", [baseUrl |-> <<"h","t","t","p",":","/","/","l","o","c","a","l","h","o","s","t",":","3","0","0","1">>]) }
  IN  /\ op = "none" /\ pc = "call" /\ result = Pending
      /\ filePath = <<>> /\ content = <<>> /\ task = NoTask /\ tasks = <<>>
      /\ keywords = <<>> /\ changeType = "modify"
      /\ config = <<>> /\ updates = <<>> /\ serverTasks = <<>>
      /\ answer = <<>> /\ env = <<>> /\ history = <<>>
      /\ globalConfigFile \in
           {MissingFile,
            WriteJson([apiKey |-> TEST_API_KEY, apiSecret |-> TEST_API_SECRET,
                       baseUrl |-> <<"h","t","t","p",":","/","/","l","o","c","a","l","h","o","s","t",":","3","0","0","0">>])}
      /\ projectConfigFile \in
           {MissingFile,
            WriteJson([projectId |-> TEST_PROJECT_ID, name |-> <<"T","e","s","t"," ","P","r","o","j","e","c","t">>,
                       lastSync |-> <<"2","0","2","3","-","0","1","-","0","1">>])}
      /\ \E n \in 2..MaxCommands : processes \in [1..n -> Callers]

\* updateProjectConfig and updateGlobalConfig up to their next await: the read
\* of the configuration, then the write of the new one
UpdateConfigStep(p) ==
  /\ p \in DOMAIN processes
  /\ LET caller == processes[p]
         currentConfig == IF caller.file = "project" THEN GetProjectConfig ELSE GetGlobalConfig
     IN  \/ /\ caller.pc = "start"
            /\ processes' =
                 [processes EXCEPT ![p].currentConfig = currentConfig,
                                   ![p].pc = IF caller.file = "project" /\ currentConfig = Null
                                               THEN "threw" ELSE "read"]
            /\ UNCHANGED <<projectConfigFile, globalConfigFile>>
         \/ /\ caller.pc = "read"
            /\ processes' = [processes EXCEPT ![p].pc = "written"]
            /\ IF caller.file = "project"
                 THEN /\ projectConfigFile' =
                           UpdateProjectConfig(caller.currentConfig, caller.updates).file
                      /\ UNCHANGED globalConfigFile
                 ELSE /\ globalConfigFile' =
                           WriteJson(NewGlobalConfig(caller.currentConfig, caller.updates))
                      /\ UNCHANGED projectConfigFile
  /\ UNCHANGED <<op, pc, result, filePath, content, task, tasks, keywords, changeType,
                 config, updates, serverTasks, answer, env, history>>

RaceSpec == RaceInit /\ [][\E p \in 1..MaxCommands : UpdateConfigStep(p)]_vars

(***************************************************************************)
(* C30: updateProjectConfig and updateGlobalConfig are atomic with respect *)
(* to concurrent callers: when two updates that set different fields run   *)
(* concurrently, then in every interleaving of their read and write steps  *)
(* the stored config finally contains both updates' fields; no update is   *)
(* lost.                                                                   *)
(***************************************************************************)
C30_NoConcurrentUpdateIsLost ==
  \A p \in DOMAIN processes, q \in DOMAIN processes :
    (/\ p # q
     /\ processes[p].file = processes[q].file
     /\ DOMAIN processes[p].updates \cap DOMAIN processes[q].updates = {}
     /\ \A r \in DOMAIN processes :
          processes[r].pc = "written"
          /\ (r \notin {p, q} => processes[r].file # processes[p].file))
    => LET stored == IF processes[p].file = "project" THEN GetProjectConfig
                     ELSE GetGlobalConfig
       IN  \A k \in DOMAIN processes[p].updates : Field(stored, k) = processes[p].updates[k]

====
